---- MODULE Spec2Model ----
(***************************************************************************)
(* Flow engine of agent_skills: FlowEngine.execute_flow (engine.py) driving *)
(* BaseExecutor.execute (executors/base.py) over the manifests and flows of *)
(* a SkillRegistry (registry.py, models.py).                                *)
(*                                                                          *)
(* Python values are tagged records.  A Python str is a sequence of         *)
(* symbols: punctuation is one symbol per character ("$", "{", "}", ".",    *)
(* "=", "!", " ", quotes), a word (identifier, keyword, free text) is one   *)
(* symbol.  A dict is a function from keys (symbols) to values.             *)
(* Wall-clock latency (time.time()) and logging are not modelled.           *)
(***************************************************************************)
EXTENDS Integers, Sequences, FiniteSets, TLC

VARIABLES
    registry_skills,   \* SkillRegistry._skills : skill_id -> SkillManifest
    registry_flows,    \* SkillRegistry._flows  : flow_id  -> FlowDefinition
    registry_loaded,   \* SkillRegistry._loaded
    disk,              \* the sources under base_dir: registry config, manifests, flow files
    env_mock,          \* os.getenv("APP_MOCK_MODE") == "true"
    executor_cache,    \* FlowEngine._executor_cache : skill_id -> executor (its manifest)
    pc,                \* per invocation: "idle", "loop", "await", "done", "x_await", "x_done"
    flow_arg,          \* per invocation: the flow_id argument
    mock_arg,          \* per invocation: the mock_mode argument as the caller gave it
    mock_mode,         \* per invocation: the effective mock flag
    idx,               \* per invocation: position of the for loop in flow.steps
    context,           \* per invocation: the context dict {"request", "steps"}
    step_results,      \* per invocation: step_id -> SkillResult
    call,              \* per invocation: the executor.execute call in flight
    result,            \* per invocation: the FlowResult (or SkillResult) returned
    log                \* per invocation: history of what the invocation did

engineVars == <<registry_skills, registry_flows, registry_loaded, disk, env_mock,
                executor_cache>>
invVars == <<pc, flow_arg, mock_arg, mock_mode, idx, context, step_results, call, result, log>>
vars == <<registry_skills, registry_flows, registry_loaded, disk, env_mock, executor_cache,
          pc, flow_arg, mock_arg, mock_mode, idx, context, step_results, call, result, log>>

-----------------------------------------------------------------------------
(* Python values *)

None == [t |-> "none"]
Str(s) == [t |-> "str", s |-> s]
Num(n) == [t |-> "num", n |-> n]
Bool(b) == [t |-> "bool", b |-> b]
List(l) == [t |-> "list", l |-> l]
Dict(m) == [t |-> "dict", m |-> m]

\* the empty dict {}
EmptyMap == <<>>

\* a one-word string
Word(w) == Str(<<w>>)

\* bool(value)
Truthy(v) ==
    CASE v.t = "none" -> FALSE
      [] v.t = "str" -> Len(v.s) > 0
      [] v.t = "num" -> v.n # 0
      [] v.t = "bool" -> v.b
      [] v.t = "list" -> Len(v.l) > 0
      [] v.t = "dict" -> DOMAIN v.m # {}

\* a key that no dict holds: the key of a path segment that is not one word
NoKey == "<nokey>"

\* the dict key a string denotes
KeyOf(s) == IF Len(s) = 1 THEN s[1] ELSE NoKey

\* dict.get(key), None when absent
Get(m, k) == IF k \in DOMAIN m THEN m[k] ELSE None

-----------------------------------------------------------------------------
(* str operations *)

\* s[p:] starts with pat (p is 1-based)
MatchAt(pat, s, p) ==
    /\ p + Len(pat) - 1 <= Len(s)
    /\ \A k \in 1..Len(pat) : s[p + k - 1] = pat[k]

\* str.find(pat), 1-based; 0 when absent
Find(pat, s) ==
    IF \E p \in 1..(Len(s) + 1) : MatchAt(pat, s, p)
    THEN CHOOSE p \in 1..(Len(s) + 1) :
            /\ MatchAt(pat, s, p)
            /\ \A q \in 1..(p - 1) : ~MatchAt(pat, s, q)
    ELSE 0

\* pat in s
Contains(pat, s) == Find(pat, s) # 0

\* s.startswith(pat), s.endswith(pat)
StartsWith(s, pat) == MatchAt(pat, s, 1)
EndsWith(s, pat) == Len(pat) <= Len(s) /\ MatchAt(pat, s, Len(s) - Len(pat) + 1)

\* s.split(pat)[0]
SplitHead(s, pat) ==
    IF Contains(pat, s) THEN SubSeq(s, 1, Find(pat, s) - 1) ELSE s

\* s.split(pat, 1)[1], for pat in s
SplitTail(s, pat) == SubSeq(s, Find(pat, s) + Len(pat), Len(s))

\* s.strip(chars)
RECURSIVE LStrip(_, _)
LStrip(s, chars) ==
    IF s # <<>> /\ Head(s) \in chars THEN LStrip(Tail(s), chars) ELSE s

RECURSIVE RStrip(_, _)
RStrip(s, chars) ==
    IF s # <<>> /\ s[Len(s)] \in chars
    THEN RStrip(SubSeq(s, 1, Len(s) - 1), chars) ELSE s

Strip(s, chars) == RStrip(LStrip(s, chars), chars)

Whitespace == {" "}

\* path.split(".")
RECURSIVE SplitDots(_)
SplitDots(s) ==
    IF Contains(<<".">>, s)
    THEN <<SubSeq(s, 1, Find(<<".">>, s) - 1)>>
            \o SplitDots(SubSeq(s, Find(<<".">>, s) + 1, Len(s)))
    ELSE <<s>>

-----------------------------------------------------------------------------
(* str(value) and repr(value) *)

Digit(d) ==
    CASE d = 0 -> "0" [] d = 1 -> "1" [] d = 2 -> "2" [] d = 3 -> "3"
      [] d = 4 -> "4" [] d = 5 -> "5" [] d = 6 -> "6" [] d = 7 -> "7"
      [] d = 8 -> "8" [] d = 9 -> "9"

\* str(n) of an int
RECURSIVE NumStr(_)
NumStr(n) ==
    IF n < 0 THEN <<"-">> \o NumStr(0 - n)
    ELSE IF n < 10 THEN <<Digit(n)>>
    ELSE NumStr(n \div 10) \o <<Digit(n % 10)>>

\* repr(s) of a str: single quotes, double quotes when s holds only single ones
StrRepr(s) ==
    LET hasS == \E k \in 1..Len(s) : s[k] = "'"
        hasD == \E k \in 1..Len(s) : s[k] = "\""
        Esc[k \in 0..Len(s)] ==
            IF k = 0 THEN <<>>
            ELSE Esc[k - 1] \o (IF s[k] = "'" THEN <<"\\", "'">> ELSE <<s[k]>>)
    IN  IF hasS /\ ~hasD THEN <<"\"">> \o s \o <<"\"">>
        ELSE IF hasS THEN <<"'">> \o Esc[Len(s)] \o <<"'">>
        ELSE <<"'">> \o s \o <<"'">>

\* the keys of a dict in iteration order (the model iterates keys in a fixed order)
RECURSIVE KeySeq(_)
KeySeq(ks) ==
    IF ks = {} THEN <<>>
    ELSE LET k == CHOOSE x \in ks : TRUE IN <<k>> \o KeySeq(ks \ {k})

RECURSIVE StrOf(_)
RECURSIVE Repr(_)
RECURSIVE JoinRepr(_)
RECURSIVE JoinItems(_, _)

\* ", ".join(repr(x) for x in l)
JoinRepr(l) ==
    IF l = <<>> THEN <<>>
    ELSE IF Len(l) = 1 THEN Repr(l[1])
    ELSE Repr(l[1]) \o <<",", " ">> \o JoinRepr(Tail(l))

\* ", ".join(repr(k) + ": " + repr(m[k]) for k in ks)
JoinItems(m, ks) ==
    IF ks = <<>> THEN <<>>
    ELSE LET item == StrRepr(<<ks[1]>>) \o <<":", " ">> \o Repr(m[ks[1]])
         IN  IF Len(ks) = 1 THEN item
             ELSE item \o <<",", " ">> \o JoinItems(m, Tail(ks))

Repr(v) == IF v.t = "str" THEN StrRepr(v.s) ELSE StrOf(v)

\* str(value)
StrOf(v) ==
    CASE v.t = "none" -> <<"None">>
      [] v.t = "str" -> v.s
      [] v.t = "num" -> NumStr(v.n)
      [] v.t = "bool" -> IF v.b THEN <<"True">> ELSE <<"False">>
      [] v.t = "list" -> <<"[">> \o JoinRepr(v.l) \o <<"]">>
      [] v.t = "dict" -> <<"{">> \o JoinItems(v.m, KeySeq(DOMAIN v.m)) \o <<"}">>

-----------------------------------------------------------------------------
(* Variable resolution: engine.py, _resolve_reference and _resolve_string_vars *)

\* fault variant of Walk: where traversal cannot continue, the value reached so
\* far is returned
RECURSIVE Walk_returns_reached(_, _)
Walk_returns_reached(current, parts) ==
    IF parts = <<>> THEN current
    ELSE IF current.t = "dict" /\ KeyOf(Head(parts)) \in DOMAIN current.m
    THEN Walk_returns_reached(current.m[KeyOf(Head(parts))], Tail(parts))
    ELSE current

\* the loop "for part in parts: if isinstance(current, dict) and part in current"
RECURSIVE Walk(_, _)
Walk(current, parts) ==
    IF parts = <<>> THEN current
    ELSE IF current.t = "dict" /\ KeyOf(Head(parts)) \in DOMAIN current.m
    THEN Walk(current.m[KeyOf(Head(parts))], Tail(parts))
    ELSE None

\* fault variant of resolve_reference: no step shorthand, only the top-level keys
resolve_reference_top_level_only(reference, ctx) ==
    LET path == IF StartsWith(reference, <<"$", "{">>) /\ EndsWith(reference, <<"}">>)
                THEN SubSeq(reference, 3, Len(reference) - 1)
                ELSE reference
        parts == SplitDots(path)
        first == KeyOf(parts[1])
    IN  IF first \in DOMAIN ctx.m THEN Walk(ctx, parts) ELSE None

\* fault variant of resolve_reference: an unknown first segment is looked up in
\* the request
resolve_reference_request_default(reference, ctx) ==
    LET path == IF StartsWith(reference, <<"$", "{">>) /\ EndsWith(reference, <<"}">>)
                THEN SubSeq(reference, 3, Len(reference) - 1)
                ELSE reference
        parts == SplitDots(path)
        first == KeyOf(parts[1])
        steps == Get(ctx.m, "steps")
    IN  IF first \in DOMAIN ctx.m THEN Walk(ctx, parts)
        ELSE IF steps.t = "dict" /\ first \in DOMAIN steps.m
        THEN Walk(steps.m[first], Tail(parts))
        ELSE Walk(Get(ctx.m, "request"), parts)

\* _resolve_reference(reference, context); ctx is the context dict as a value
resolve_reference(reference, ctx) ==
    LET path == IF StartsWith(reference, <<"$", "{">>) /\ EndsWith(reference, <<"}">>)
                THEN SubSeq(reference, 3, Len(reference) - 1)
                ELSE reference
        parts == SplitDots(path)
        first == KeyOf(parts[1])
        steps == Get(ctx.m, "steps")
    IN  IF first \in DOMAIN ctx.m THEN Walk(ctx, parts)
        ELSE IF steps.t = "dict" /\ first \in DOMAIN steps.m
        THEN Walk(steps.m[first], Tail(parts))
        ELSE None

\* length of the match of VAR_PATTERN \$\{([^}]+)\} at the start of text, 0 if none
VarMatchLen(text) ==
    IF /\ Len(text) >= 4
       /\ text[1] = "$" /\ text[2] = "{" /\ text[3] # "}"
       /\ \E p \in 4..Len(text) : text[p] = "}"
    THEN CHOOSE p \in 4..Len(text) :
            text[p] = "}" /\ \A q \in 4..(p - 1) : text[q] # "}"
    ELSE 0

\* fault variant of replace_match: an unresolved reference is blanked out
replace_match_blank(ref, ctx) ==
    LET value == resolve_reference(ref, ctx)
    IN  IF value # None THEN StrOf(value) ELSE <<>>

\* replace_match: str(value) if value is not None else ref
replace_match(ref, ctx) ==
    LET value == resolve_reference(ref, ctx)
    IN  IF value # None THEN StrOf(value) ELSE ref

\* _resolve_string_vars(text, context): VAR_PATTERN.sub(replace_match, text)
RECURSIVE resolve_string_vars(_, _)
resolve_string_vars(text, ctx) ==
    IF text = <<>> THEN <<>>
    ELSE LET n == VarMatchLen(text)
         IN  IF n > 0
             THEN replace_match(SubSeq(text, 1, n), ctx)
                    \o resolve_string_vars(SubSeq(text, n + 1, Len(text)), ctx)
             ELSE <<Head(text)>> \o resolve_string_vars(Tail(text), ctx)

-----------------------------------------------------------------------------
(* Condition evaluation: engine.py, _evaluate_condition *)

IsEmpty == <<"is", " ", "empty">>
IsNotEmpty == <<"is", " ", "not", " ", "empty">>
NotPrefix == <<"not", " ">>

\* interpreter frames one condition evaluation may nest before RecursionError
RecursionLimit == 2

\* fault variant of Unquote: only whitespace is stripped
Unquote_whitespace_only(s) == Strip(s, Whitespace)

\* left.strip().strip('"').strip("'")
Unquote(s) == Strip(Strip(Strip(s, Whitespace), {"\""}), {"'"})

\* the "is empty" branch's test of the re-resolved left-hand value
EmptyTest(actual_val) ==
    IF actual_val.t = "list" THEN Len(actual_val.l) = 0
    ELSE IF actual_val.t = "dict" THEN DOMAIN actual_val.m = {}
    ELSE ~Truthy(actual_val)

\* the "is not empty" branch's test
NotEmptyTest(actual_val) ==
    IF actual_val.t = "list" THEN Len(actual_val.l) > 0
    ELSE IF actual_val.t = "dict" THEN DOMAIN actual_val.m # {}
    ELSE Truthy(actual_val)

\* fault variant of ConditionRule: "is not empty" is tested before "is empty"
ConditionRule_not_empty_first(resolved) ==
    IF Contains(IsNotEmpty, resolved) THEN "is_not_empty"
    ELSE IF Contains(IsEmpty, resolved) THEN "is_empty"
    ELSE IF Contains(<<"!", "=">>, resolved) THEN "ne"
    ELSE IF Contains(<<"=", "=">>, resolved) THEN "eq"
    ELSE IF StartsWith(Strip(resolved, Whitespace), NotPrefix) THEN "not"
    ELSE "bool"

\* fault variant of ConditionRule: the "not " prefix is tested before the operators
ConditionRule_not_before_equality(resolved) ==
    IF Contains(IsEmpty, resolved) THEN "is_empty"
    ELSE IF Contains(IsNotEmpty, resolved) THEN "is_not_empty"
    ELSE IF StartsWith(Strip(resolved, Whitespace), NotPrefix) THEN "not"
    ELSE IF Contains(<<"!", "=">>, resolved) THEN "ne"
    ELSE IF Contains(<<"=", "=">>, resolved) THEN "eq"
    ELSE "bool"

\* which branch of _evaluate_condition takes the resolved string
ConditionRule(resolved) ==
    IF Contains(IsEmpty, resolved) THEN "is_empty"
    ELSE IF Contains(IsNotEmpty, resolved) THEN "is_not_empty"
    ELSE IF Contains(<<"!", "=">>, resolved) THEN "ne"
    ELSE IF Contains(<<"=", "=">>, resolved) THEN "eq"
    ELSE IF StartsWith(Strip(resolved, Whitespace), NotPrefix) THEN "not"
    ELSE "bool"

\* _evaluate_condition in the interpreter frame at the given depth.  The only
\* exception the body can raise on JSON-like values is the RecursionError of the
\* recursive call; the except clause of the frame making the call returns False.
RECURSIVE eval_frame(_, _, _)
eval_frame(condition, ctx, depth) ==
    LET resolved == resolve_string_vars(condition, ctx)
        rule == ConditionRule(resolved)
    IN  CASE rule = "is_empty" ->
               EmptyTest(resolve_reference(
                   Strip(SplitHead(condition, IsEmpty), Whitespace), ctx))
          [] rule = "is_not_empty" ->
               NotEmptyTest(resolve_reference(
                   Strip(SplitHead(condition, IsNotEmpty), Whitespace), ctx))
          [] rule = "ne" ->
               Unquote(SplitHead(resolved, <<"!", "=">>))
                   # Unquote(SplitTail(resolved, <<"!", "=">>))
          [] rule = "eq" ->
               Unquote(SplitHead(resolved, <<"=", "=">>))
                   = Unquote(SplitTail(resolved, <<"=", "=">>))
          [] rule = "not" ->
               IF depth + 1 > RecursionLimit
               THEN FALSE  \* RecursionError at the call, caught by this frame
               ELSE ~eval_frame(SubSeq(Strip(resolved, Whitespace), 3,
                                       Len(Strip(resolved, Whitespace))),
                                ctx, depth + 1)
          [] OTHER -> resolved # <<>>

\* whether evaluating the condition raises inside some frame
RECURSIVE eval_raises(_, _, _)
eval_raises(condition, ctx, depth) ==
    LET resolved == resolve_string_vars(condition, ctx)
    IN  /\ ConditionRule(resolved) = "not"
        /\ \/ depth + 1 > RecursionLimit
           \/ eval_raises(SubSeq(Strip(resolved, Whitespace), 3,
                                 Len(Strip(resolved, Whitespace))),
                          ctx, depth + 1)

\* _evaluate_condition(condition, context)
evaluate_condition(condition, ctx) == eval_frame(condition, ctx, 1)

-----------------------------------------------------------------------------
(* models.py: manifests, flows, results *)

\* SkillStatus values the engine and the executors produce
SUCCESS == "success"
FAILURE == "failure"
SKIPPED == "skipped"

\* FallbackStrategy
PASSTHROUGH == "passthrough"
DEFAULT_VALUE == "default_value"
SKIP == "skip"

\* SkillType, the keys of EXECUTOR_MAP
EXECUTOR_MAP ==
    {"llm_call", "genie_query", "web_search", "lakebase_query", "function",
     "prompt_registry"}

\* FieldSchema(name, required, default)
FieldSchema(name, required, default) ==
    [name |-> name, required |-> required, default |-> default]

\* FallbackConfig(strategy, passthrough_field, default_value)
FallbackConfig(strategy, passthrough_field, default_value) ==
    [strategy |-> strategy, passthrough_field |-> passthrough_field,
     default_value |-> default_value]

\* SkillResult(...); output defaults to {}, error to None, metadata to {}
SkillResult(skill_id, step_id, status, output, error, metadata) ==
    [skill_id |-> skill_id, step_id |-> step_id, status |-> status,
     output |-> output, error |-> error, metadata |-> metadata]

\* FlowResult(...); response and step_results default to {}, error and display to None
FlowResult(flow_id, status, response, results, display, error) ==
    [flow_id |-> flow_id, status |-> status, response |-> response,
     step_results |-> results, display |-> display, error |-> error]

-----------------------------------------------------------------------------
(* executors/base.py: the lifecycle of BaseExecutor.execute *)

\* fault variant of validate_inputs: returns after looking at the first field only
validate_inputs_first_field_only(input_schema, inputs) ==
    IF input_schema = <<>> THEN None
    ELSE IF Head(input_schema).required /\ Head(input_schema).name \notin DOMAIN inputs
    THEN Str(<<"Missing required input: ", Head(input_schema).name>>)
    ELSE None

\* fault variant of validate_inputs: a required field whose value is None counts
\* as missing
RECURSIVE validate_inputs_null_is_missing(_, _)
validate_inputs_null_is_missing(input_schema, inputs) ==
    IF input_schema = <<>> THEN None
    ELSE IF /\ Head(input_schema).required
            /\ Get(inputs, Head(input_schema).name) = None
    THEN Str(<<"Missing required input: ", Head(input_schema).name>>)
    ELSE validate_inputs_null_is_missing(Tail(input_schema), inputs)

\* _validate_inputs: the message for the first required field absent from inputs
RECURSIVE validate_inputs(_, _)
validate_inputs(input_schema, inputs) ==
    IF input_schema = <<>> THEN None
    ELSE IF Head(input_schema).required /\ Head(input_schema).name \notin DOMAIN inputs
    THEN Str(<<"Missing required input: ", Head(input_schema).name>>)
    ELSE validate_inputs(Tail(input_schema), inputs)

\* fault variant of handle_fallback: the default-value branch lacks "is not None"
handle_fallback_none_default(manifest, step_id, error) ==
    LET fb == manifest.fallback
    IN  IF fb.strategy = PASSTHROUGH /\ Truthy(fb.passthrough_field)
        THEN SkillResult(manifest.skill_id, step_id, FAILURE,
                 [_fallback |-> Word("passthrough"), _field |-> fb.passthrough_field],
                 Str(error), [fallback_strategy |-> Word("passthrough")])
        ELSE IF fb.strategy = DEFAULT_VALUE
        THEN SkillResult(manifest.skill_id, step_id, FAILURE,
                 IF fb.default_value.t = "dict" THEN fb.default_value.m
                 ELSE [result |-> fb.default_value],
                 Str(error), [fallback_strategy |-> Word("default_value")])
        ELSE SkillResult(manifest.skill_id, step_id, SKIPPED, EmptyMap,
                 Str(error), [fallback_strategy |-> Word("skip")])

\* fault variant of handle_fallback: the default-value branch tests the default's
\* truth value instead of "is not None"
handle_fallback_truthy_default(manifest, step_id, error) ==
    LET fb == manifest.fallback
    IN  IF fb.strategy = PASSTHROUGH /\ Truthy(fb.passthrough_field)
        THEN SkillResult(manifest.skill_id, step_id, FAILURE,
                 [_fallback |-> Word("passthrough"), _field |-> fb.passthrough_field],
                 Str(error), [fallback_strategy |-> Word("passthrough")])
        ELSE IF fb.strategy = DEFAULT_VALUE /\ Truthy(fb.default_value)
        THEN SkillResult(manifest.skill_id, step_id, FAILURE,
                 IF fb.default_value.t = "dict" THEN fb.default_value.m
                 ELSE [result |-> fb.default_value],
                 Str(error), [fallback_strategy |-> Word("default_value")])
        ELSE SkillResult(manifest.skill_id, step_id, SKIPPED, EmptyMap,
                 Str(error), [fallback_strategy |-> Word("skip")])

\* fault variant of handle_fallback: chooses by the configured parameters, not
\* by the strategy
handle_fallback_by_parameters(manifest, step_id, error) ==
    LET fb == manifest.fallback
    IN  IF Truthy(fb.passthrough_field)
        THEN SkillResult(manifest.skill_id, step_id, FAILURE,
                 [_fallback |-> Word("passthrough"), _field |-> fb.passthrough_field],
                 Str(error), [fallback_strategy |-> Word("passthrough")])
        ELSE IF fb.default_value # None
        THEN SkillResult(manifest.skill_id, step_id, FAILURE,
                 IF fb.default_value.t = "dict" THEN fb.default_value.m
                 ELSE [result |-> fb.default_value],
                 Str(error), [fallback_strategy |-> Word("default_value")])
        ELSE SkillResult(manifest.skill_id, step_id, SKIPPED, EmptyMap,
                 Str(error), [fallback_strategy |-> Word("skip")])

\* FallbackConfig(): the fallback of a manifest that configures none
DefaultFallback == FallbackConfig(SKIP, None, None)

\* _handle_fallback(step_id, error, start_time) of the executor of a manifest
handle_fallback(manifest, step_id, error) ==
    LET fb == manifest.fallback
    IN  IF fb.strategy = PASSTHROUGH /\ Truthy(fb.passthrough_field)
        THEN SkillResult(manifest.skill_id, step_id, FAILURE,
                 [_fallback |-> Word("passthrough"), _field |-> fb.passthrough_field],
                 Str(error), [fallback_strategy |-> Word("passthrough")])
        ELSE IF fb.strategy = DEFAULT_VALUE /\ fb.default_value # None
        THEN SkillResult(manifest.skill_id, step_id, FAILURE,
                 IF fb.default_value.t = "dict" THEN fb.default_value.m
                 ELSE [result |-> fb.default_value],
                 Str(error), [fallback_strategy |-> Word("default_value")])
        ELSE SkillResult(manifest.skill_id, step_id, SKIPPED, EmptyMap,
                 Str(error), [fallback_strategy |-> Word("skip")])

\* which implementation execute() awaits: _mock_execute or _execute
dispatch_impl(manifest, mock) ==
    IF mock /\ manifest.mock_enabled THEN "mock_execute" ELSE "execute"

\* the SkillResult of the try block when the implementation returned output
success_result(manifest, step_id, output) ==
    SkillResult(manifest.skill_id, step_id, SUCCESS, output, None, EmptyMap)

\* fault variant of except_clause: only "except TimeoutError" is there
except_clause_timeout_only(kind) ==
    IF kind = "timeout" THEN "TimeoutError" ELSE "none"

\* the except clause of execute() that catches what the implementation raised:
\* "except TimeoutError", then "except Exception"
except_clause(kind) ==
    IF kind = "timeout" THEN "TimeoutError"
    ELSE IF kind = "error" THEN "Exception"
    ELSE "none"

\* the error text the except clauses hand to _handle_fallback
except_error(kind, msg) ==
    IF except_clause(kind) = "TimeoutError" THEN <<"Timeout: ">> \o msg ELSE msg

-----------------------------------------------------------------------------
(* engine.py: step inputs, passthrough, response *)

\* _resolve_step_inputs(step, context): bindings in order, later ones overwrite
RECURSIVE resolve_bindings(_, _, _)
resolve_bindings(inputs, ctx, resolved) ==
    IF inputs = <<>> THEN resolved
    ELSE LET step_input == Head(inputs)
             value == IF Truthy(step_input.reference)
                      THEN resolve_reference(step_input.reference.s, ctx)
                      ELSE step_input.value
             final == IF value.t = "str"
                      THEN Str(resolve_string_vars(value.s, ctx))
                      ELSE value
         IN  resolve_bindings(Tail(inputs), ctx,
                              (step_input.field :> final) @@ resolved)

resolve_step_inputs(step, ctx) == resolve_bindings(step.inputs, ctx, EmptyMap)

\* "if passthrough_field in resolved_inputs" for the marker's _field value
FieldIn(passthrough_field, resolved_inputs) ==
    passthrough_field.t = "str" /\ KeyOf(passthrough_field.s) \in DOMAIN resolved_inputs

\* fault variant of passthrough_output: the value is always put under "result"
passthrough_output_result_key(res, skill, resolved_inputs) ==
    IF /\ res.status = FAILURE
       /\ Get(res.output, "_fallback") = Word("passthrough")
       /\ FieldIn(IF "_field" \in DOMAIN res.output THEN res.output["_field"]
                  ELSE Str(<<>>), resolved_inputs)
    THEN ("result" :> resolved_inputs[KeyOf(res.output["_field"].s)])
    ELSE res.output

\* the output the engine records for a result: phase two of the passthrough fallback
passthrough_output(res, skill, resolved_inputs) ==
    IF /\ res.status = FAILURE
       /\ Get(res.output, "_fallback") = Word("passthrough")
       /\ FieldIn(IF "_field" \in DOMAIN res.output THEN res.output["_field"]
                  ELSE Str(<<>>), resolved_inputs)
    THEN LET first_output == IF skill.output_schema # <<>>
                             THEN skill.output_schema[1].name ELSE "result"
         IN  (first_output :> resolved_inputs[KeyOf(res.output["_field"].s)])
    ELSE res.output

\* fault variant of with_step: the steps dict is built anew for each step
with_step_fresh(ctx, step_id, output, status) ==
    Dict([request |-> ctx.m.request,
          steps |-> Dict((step_id :> Dict([output |-> Dict(output),
                                           status |-> Word(status)])))])

\* context["steps"][step_id] = {"output": output, "status": status}
with_step(ctx, step_id, output, status) ==
    Dict([request |-> ctx.m.request,
          steps |-> Dict((step_id :> Dict([output |-> Dict(output),
                                           status |-> Word(status)]))
                         @@ ctx.m.steps.m)])

\* _build_response(flow, context): mappings in order, later ones overwrite
RECURSIVE build_mappings(_, _, _)
build_mappings(mappings, ctx, response) ==
    IF mappings = <<>> THEN response
    ELSE LET mapping == Head(mappings)
             value == IF Truthy(mapping.reference)
                      THEN resolve_reference(mapping.reference.s, ctx)
                      ELSE None
         IN  build_mappings(Tail(mappings), ctx,
                 (mapping.field :> (IF value # None THEN value ELSE mapping.default))
                     @@ response)

\* fault variant of build_response: "value or mapping.default"
RECURSIVE build_mappings_truthy(_, _, _)
build_mappings_truthy(mappings, ctx, response) ==
    IF mappings = <<>> THEN response
    ELSE LET mapping == Head(mappings)
             value == IF Truthy(mapping.reference)
                      THEN resolve_reference(mapping.reference.s, ctx)
                      ELSE None
         IN  build_mappings_truthy(Tail(mappings), ctx,
                 (mapping.field :> (IF Truthy(value) THEN value ELSE mapping.default))
                     @@ response)

build_response_truthy(flow, ctx) == build_mappings_truthy(flow.response, ctx, EmptyMap)

build_response(flow, ctx) == build_mappings(flow.response, ctx, EmptyMap)

-----------------------------------------------------------------------------
(* The registry's content and the inputs of the model *)

\* "${" path "}"
Ref(path) == <<"$", "{">> \o path \o <<"}">>

\* SkillManifest(skill_id, type, input_schema, output_schema, fallback, mock_enabled)
SkillManifest(skill_id, type, input_schema, output_schema, fallback, mock_enabled) ==
    [skill_id |-> skill_id, type |-> type, input_schema |-> input_schema,
     output_schema |-> output_schema, fallback |-> fallback,
     mock_enabled |-> mock_enabled]

\* StepInput(field, value, reference)
StepInput(field, value, reference) ==
    [field |-> field, value |-> value, reference |-> reference]

\* FlowStep(skill, id, inputs, condition)
FlowStep(skill, id, inputs, condition) ==
    [skill |-> skill, id |-> id, inputs |-> inputs, condition |-> condition]

\* ResponseMapping(field, reference, default)
ResponseMapping(field, reference, default) ==
    [field |-> field, reference |-> reference, default |-> default]

\* the skills the registry holds after load()
LoadedSkills ==
    ("rewriter" :> SkillManifest("rewriter", "llm_call",
         <<FieldSchema("query", TRUE, None)>>,
         <<FieldSchema("rewritten", TRUE, None)>>,
         FallbackConfig(PASSTHROUGH, Word("query"), None), TRUE))
    @@ ("genie" :> SkillManifest("genie", "genie_query",
         <<FieldSchema("query", TRUE, None), FieldSchema("limit", FALSE, Num(5))>>,
         <<FieldSchema("items", TRUE, List(<<>>)), FieldSchema("count", TRUE, Num(0))>>,
         FallbackConfig(DEFAULT_VALUE, None, Word("unavailable")), TRUE))
    @@ ("lookup" :> SkillManifest("lookup", "function", <<>>, <<>>,
         FallbackConfig(SKIP, None, None), FALSE))
    @@ ("echo" :> SkillManifest("echo", "function",
         <<FieldSchema("text", FALSE, None)>>, <<>>,
         FallbackConfig(PASSTHROUGH, Word("text"), None), TRUE))
    @@ ("tagger" :> SkillManifest("tagger", "web_search",
         <<FieldSchema("text", TRUE, None), FieldSchema("lang", TRUE, None)>>,
         <<FieldSchema("label", TRUE, None), FieldSchema("score", FALSE, Num(0))>>,
         FallbackConfig(PASSTHROUGH, Word("text"), None), TRUE))

\* the steps flows are built from; "ghost" is a skill id the registry does not hold
StepPool ==
    { FlowStep("rewriter", "s1",
          <<StepInput("query", None, Str(Ref(<<"request", ".", "q">>)))>>, None),
      FlowStep("genie", "s2",
          <<StepInput("query",
                Str(<<"find", " ">> \o Ref(<<"s1", ".", "output", ".", "rewritten">>)),
                None)>>,
          Str(Ref(<<"s1", ".", "status">>) \o <<" ", "=", "=", " ", "\"", "success", "\"">>)),
      FlowStep("lookup", "s3", <<>>,
          Str(Ref(<<"request", ".", "q">>) \o <<" ">> \o IsNotEmpty)),
      FlowStep("ghost", "s4",
          <<StepInput("x", None, Str(Ref(<<"request", ".", "q">>)))>>, None),
      FlowStep("rewriter", "s5", <<>>,
          Str(Ref(<<"s1", ".", "output", ".", "count">>) \o <<" ">> \o IsEmpty)),
      FlowStep("echo", "s6",
          <<StepInput("text", None, Str(Ref(<<"request", ".", "q">>)))>>,
          Str(NotPrefix \o NotPrefix \o NotPrefix \o Ref(<<"request", ".", "q">>))),
      FlowStep("tagger", "s7",
          <<StepInput("text", None, Str(Ref(<<"request", ".", "q">>)))>>, None),
      FlowStep("lookup", "s8", <<>>,
          Str(Ref(<<"s1", ".", "output", ".", "count">>) \o <<" ">> \o IsNotEmpty)) }

\* longest flow of the model
MaxSteps == 2

\* step sequences with unique step ids
StepSeqs ==
    UNION { { ss \in [1..n -> StepPool] :
                 \A a, b \in 1..n : ss[a].id = ss[b].id => a = b } : n \in 0..MaxSteps }

\* the response mappings of every flow of the model
Mappings ==
    <<ResponseMapping("answer",
          Str(Ref(<<"s1", ".", "output", ".", "rewritten">>)), Word("n/a")),
      ResponseMapping("found", Str(Ref(<<"s2", ".", "status">>)), None),
      ResponseMapping("count", Str(Ref(<<"s1", ".", "output", ".", "count">>)), Num(5)),
      ResponseMapping("items", Str(Ref(<<"s3", ".", "output", ".", "rewritten">>)), None),
      ResponseMapping("total", Str(Ref(<<"s3", ".", "output", ".", "count">>)), Word("n/a")),
      ResponseMapping("version", None, Word("v1"))>>

\* DisplayConfig()
Display == Word("inline")

FlowDefinition(flow_id, steps) ==
    [flow_id |-> flow_id, steps |-> steps, response |-> Mappings, display |-> Display]

\* flow ids callers ask for; only "main" is registered
FlowIds == {"main", "absent"}

\* request payloads
Requests == { EmptyMap, [q |-> Word("hotels")] }

\* the mock_mode argument: None, True, False
MockArgs == { None, Bool(TRUE), Bool(FALSE) }

\* what an implementation may return
ImplOutputs == { EmptyMap, [rewritten |-> Word("inns"), count |-> Num(0)] }

\* how an implementation may fail: TimeoutError(msg) or another Exception(msg)
ImplFailures == { [kind |-> "timeout", msg |-> <<"slow">>], [kind |-> "error", msg |-> <<>>] }

\* concurrent callers of the engine
Invs == {"i1"}

NoCall == [impl |-> "none"]
NoResult == [status |-> "none"]

-----------------------------------------------------------------------------
(* FlowEngine.execute_flow, one invocation i *)

\* a base_dir without skill_registry.yaml, skills/ and flows/
NoDisk == [config |-> "absent", skills |-> <<>>, flows |-> <<>>]

Init ==
    /\ registry_skills = LoadedSkills
    /\ registry_flows \in { ("main" :> FlowDefinition("main", ss)) : ss \in StepSeqs }
    /\ registry_loaded = TRUE
    /\ disk = NoDisk
    /\ env_mock \in BOOLEAN
    /\ executor_cache = EmptyMap
    /\ pc = [i \in Invs |-> "idle"]
    /\ flow_arg = [i \in Invs |-> "main"]
    /\ mock_arg = [i \in Invs |-> None]
    /\ mock_mode = [i \in Invs |-> FALSE]
    /\ idx = [i \in Invs |-> 0]
    /\ context = [i \in Invs |-> None]
    /\ step_results = [i \in Invs |-> EmptyMap]
    /\ call = [i \in Invs |-> NoCall]
    /\ result = [i \in Invs |-> NoResult]
    /\ log = [i \in Invs |-> <<>>]

\* fault variants of the registry lookups: an unknown id yields a default entry
get_flow_or_default(flow_id) ==
    IF flow_id \in DOMAIN registry_flows THEN registry_flows[flow_id]
    ELSE registry_flows["main"]

get_skill_or_default(skill_id) ==
    IF skill_id \in DOMAIN registry_skills THEN registry_skills[skill_id]
    ELSE registry_skills["lookup"]

\* SkillRegistry.get_flow(flow_id) and get_skill(skill_id): None when absent
get_flow(flow_id) == Get(registry_flows, flow_id)
get_skill(skill_id) == Get(registry_skills, skill_id)

\* the flow and the step invocation i is at
FlowOf(i) == get_flow(flow_arg[i])
StepOf(i) == FlowOf(i).steps[idx[i]]
AtStep(i) == pc[i] = "loop" /\ idx[i] <= Len(FlowOf(i).steps)

\* fault variant of effective_mock: "if not mock_mode" instead of "is None"
effective_mock_if_falsy(mm) == IF mm = None THEN env_mock ELSE (mm.b \/ env_mock)

\* "if mock_mode is None: mock_mode = os.getenv(...)"
effective_mock(mm) == IF mm = None THEN env_mock ELSE mm.b

\* fault variant of condition_fails: the "not" is missing
condition_fails_inverted(step, ctx) ==
    Truthy(step.condition) /\ evaluate_condition(step.condition.s, ctx)

\* "step.condition and not self._evaluate_condition(step.condition, context)"
condition_fails(step, ctx) ==
    Truthy(step.condition) /\ ~evaluate_condition(step.condition.s, ctx)

\* fault variant of constructs: the cache is not looked up
constructs_always(skill) == TRUE

\* _get_executor(skill) constructs an executor: "if skill.skill_id in
\* self._executor_cache: return" is not taken.  _get_executor holds no await:
\* under the event loop it runs from its test to its insert without another
\* invocation in between.
constructs(skill) == skill.skill_id \notin DOMAIN executor_cache

\* the events of _get_executor(skill) at step k
GetExecutorEvents(skill, k) ==
    <<(<<"get_executor", k>>)>>
        \o (IF constructs(skill) THEN <<(<<"construct", k>>)>> ELSE <<>>)

\* _get_executor(skill): the cache after the call
get_executor(skill) ==
    IF skill.skill_id \in DOMAIN executor_cache THEN executor_cache
    ELSE (skill.skill_id :> skill) @@ executor_cache

\* the events of one step up to the point reached
StepEvents(step, k, upto) ==
    (IF Truthy(step.condition) THEN <<(<<"condition", k>>)>> ELSE <<>>) \o upto

\* execute_flow for a flow id the registry does not hold
FlowNotFound(i, fid, mm) ==
    /\ pc[i] = "idle"
    /\ get_flow(fid) = None
    /\ flow_arg' = [flow_arg EXCEPT ![i] = fid]
    /\ mock_arg' = [mock_arg EXCEPT ![i] = mm]
    /\ mock_mode' = [mock_mode EXCEPT ![i] = effective_mock(mm)]
    /\ result' = [result EXCEPT ![i] =
           FlowResult(fid, FAILURE, EmptyMap, EmptyMap, None,
                      Str(<<"Flow not found: ", fid>>))]
    /\ pc' = [pc EXCEPT ![i] = "done"]
    /\ log' = [log EXCEPT ![i] = @ \o <<(<<"get_flow", 0>>)>>]
    /\ UNCHANGED <<engineVars, idx, context, step_results, call>>

\* execute_flow up to the for loop, for a registered flow
StartFlow(i, fid, req, mm) ==
    /\ pc[i] = "idle"
    /\ get_flow(fid) # None
    /\ flow_arg' = [flow_arg EXCEPT ![i] = fid]
    /\ mock_arg' = [mock_arg EXCEPT ![i] = mm]
    /\ mock_mode' = [mock_mode EXCEPT ![i] = effective_mock(mm)]
    /\ context' = [context EXCEPT ![i] =
           Dict([request |-> Dict(req), steps |-> Dict(EmptyMap)])]
    /\ step_results' = [step_results EXCEPT ![i] = EmptyMap]
    /\ idx' = [idx EXCEPT ![i] = 1]
    /\ pc' = [pc EXCEPT ![i] = "loop"]
    /\ log' = [log EXCEPT ![i] = @ \o <<(<<"get_flow", 0>>)>>]
    /\ UNCHANGED <<engineVars, call, result>>

\* fault variant of RecordStep: the context is an attribute of the engine, one
\* dict for all invocations
RecordStep_shared_context(i, step, res, events) ==
    /\ step_results' = [step_results EXCEPT ![i] = (step.id :> res) @@ @]
    /\ context' = [j \in DOMAIN context |->
                      with_step(context[i], step.id, res.output, res.status)]
    /\ idx' = [idx EXCEPT ![i] = @ + 1]
    /\ pc' = [pc EXCEPT ![i] = "loop"]
    /\ log' = [log EXCEPT ![i] = @ \o events \o <<(<<"record", idx[i]>>)>>]

\* fault variant of RecordStep: a skipped step is kept in step_results only
RecordStep_skipped_not_in_context(i, step, res, events) ==
    /\ step_results' = [step_results EXCEPT ![i] = (step.id :> res) @@ @]
    /\ context' = [context EXCEPT ![i] =
           IF res.status = SKIPPED THEN @
           ELSE with_step(@, step.id, res.output, res.status)]
    /\ idx' = [idx EXCEPT ![i] = @ + 1]
    /\ pc' = [pc EXCEPT ![i] = "loop"]
    /\ log' = [log EXCEPT ![i] = @ \o events \o <<(<<"record", idx[i]>>)>>]

\* "step_results[step.id] = result; context["steps"][step.id] = {...}" and on to
\* the next step
RecordStep(i, step, res, events) ==
    /\ step_results' = [step_results EXCEPT ![i] = (step.id :> res) @@ @]
    /\ context' = [context EXCEPT ![i] = with_step(@, step.id, res.output, res.status)]
    /\ idx' = [idx EXCEPT ![i] = @ + 1]
    /\ pc' = [pc EXCEPT ![i] = "loop"]
    /\ log' = [log EXCEPT ![i] = @ \o events \o <<(<<"record", idx[i]>>)>>]

\* the step's condition is not met
SkipStep(i) ==
    /\ AtStep(i)
    /\ condition_fails(StepOf(i), context[i])
    /\ RecordStep(i, StepOf(i),
           SkillResult(StepOf(i).skill, StepOf(i).id, SKIPPED, EmptyMap, None,
                       [reason |-> Word("condition_not_met")]),
           StepEvents(StepOf(i), idx[i], <<>>))
    /\ UNCHANGED <<engineVars, flow_arg, mock_arg, mock_mode, call, result>>

\* fault variant of SkillNotFound: returns a failed FlowResult instead of "continue"
SkillNotFoundReturns(i) ==
    /\ AtStep(i)
    /\ ~condition_fails(StepOf(i), context[i])
    /\ get_skill(StepOf(i).skill) = None
    /\ result' = [result EXCEPT ![i] =
           FlowResult(flow_arg[i], FAILURE, EmptyMap, step_results[i], None,
                      Str(<<"Skill not found: ", StepOf(i).skill>>))]
    /\ pc' = [pc EXCEPT ![i] = "done"]
    /\ log' = [log EXCEPT ![i] = @ \o StepEvents(StepOf(i), idx[i],
           <<(<<"resolve_inputs", idx[i]>>), (<<"get_skill", idx[i]>>)>>)]
    /\ UNCHANGED <<engineVars, flow_arg, mock_arg, mock_mode, idx, context, step_results, call>>

\* the step's skill is not in the registry
SkillNotFound(i) ==
    /\ AtStep(i)
    /\ ~condition_fails(StepOf(i), context[i])
    /\ get_skill(StepOf(i).skill) = None
    /\ RecordStep(i, StepOf(i),
           SkillResult(StepOf(i).skill, StepOf(i).id, FAILURE, EmptyMap,
                       Str(<<"Skill not found: ", StepOf(i).skill>>), EmptyMap),
           StepEvents(StepOf(i), idx[i],
               <<(<<"resolve_inputs", idx[i]>>), (<<"get_skill", idx[i]>>)>>))
    /\ UNCHANGED <<engineVars, flow_arg, mock_arg, mock_mode, call, result>>

\* the result the engine records: the executor's, with the passthrough output
recorded_result(res, skill, resolved_inputs) ==
    [res EXCEPT !.output = passthrough_output(res, skill, resolved_inputs)]

\* executor.execute returns at once: a required input is missing
ValidationFailed(i) ==
    /\ AtStep(i)
    /\ ~condition_fails(StepOf(i), context[i])
    /\ get_skill(StepOf(i).skill) # None
    /\ LET step == StepOf(i)
           skill == get_skill(step.skill)
           resolved_inputs == resolve_step_inputs(step, context[i])
           executor == get_executor(skill)[skill.skill_id]
           validation_error == validate_inputs(executor.input_schema, resolved_inputs)
       IN  /\ skill.type \in EXECUTOR_MAP
           /\ validation_error # None
           /\ executor_cache' = get_executor(skill)
           /\ RecordStep(i, step,
                  recorded_result(handle_fallback(executor, step.id, validation_error.s),
                                  skill, resolved_inputs),
                  StepEvents(step, idx[i],
                      <<(<<"resolve_inputs", idx[i]>>), (<<"get_skill", idx[i]>>)>>
                          \o GetExecutorEvents(skill, idx[i])
                          \o <<(<<"validate", idx[i]>>)>>))
    /\ UNCHANGED <<registry_skills, registry_flows, registry_loaded, disk, env_mock,
                   flow_arg, mock_arg, mock_mode,
                   call, result>>

\* fault variant of ExecuteStep: the implementation is started and not awaited,
\* the loop goes on to the next step
ExecuteStepNotAwaited(i) ==
    /\ AtStep(i)
    /\ ~condition_fails(StepOf(i), context[i])
    /\ get_skill(StepOf(i).skill) # None
    /\ LET step == StepOf(i)
           skill == get_skill(step.skill)
           resolved_inputs == resolve_step_inputs(step, context[i])
           executor == get_executor(skill)[skill.skill_id]
           impl == dispatch_impl(executor, mock_mode[i])
       IN  /\ skill.type \in EXECUTOR_MAP
           /\ validate_inputs(executor.input_schema, resolved_inputs) = None
           /\ executor_cache' = get_executor(skill)
           /\ call' = [call EXCEPT ![i] =
                  [impl |-> impl, manifest |-> executor, skill |-> skill,
                   inputs |-> resolved_inputs, step |-> step]]
           /\ idx' = [idx EXCEPT ![i] = @ + 1]
           /\ log' = [log EXCEPT ![i] = @ \o StepEvents(step, idx[i],
                  <<(<<"resolve_inputs", idx[i]>>), (<<"get_skill", idx[i]>>)>>
                      \o GetExecutorEvents(skill, idx[i])
                      \o <<(<<"validate", idx[i]>>), (<<impl, idx[i]>>)>>)]
    /\ UNCHANGED <<registry_skills, registry_flows, registry_loaded, disk, env_mock,
                   flow_arg, mock_arg, mock_mode,
                   pc, context, step_results, result>>

\* executor.execute reaches "await self._execute(inputs)" or "_mock_execute";
\* _get_executor raises ValueError for a type EXECUTOR_MAP does not hold
ExecuteStep(i) ==
    /\ AtStep(i)
    /\ ~condition_fails(StepOf(i), context[i])
    /\ get_skill(StepOf(i).skill) # None
    /\ LET step == StepOf(i)
           skill == get_skill(step.skill)
           resolved_inputs == resolve_step_inputs(step, context[i])
           executor == get_executor(skill)[skill.skill_id]
           impl == dispatch_impl(executor, mock_mode[i])
           before == StepEvents(step, idx[i],
                      <<(<<"resolve_inputs", idx[i]>>), (<<"get_skill", idx[i]>>)>>)
       IN  IF skill.type \notin EXECUTOR_MAP
           THEN /\ pc' = [pc EXCEPT ![i] = "raised"]
                /\ log' = [log EXCEPT ![i] = @ \o before \o <<(<<"get_executor", idx[i]>>)>>]
                /\ UNCHANGED <<executor_cache, call>>
           ELSE /\ validate_inputs(executor.input_schema, resolved_inputs) = None
                /\ executor_cache' = get_executor(skill)
                /\ call' = [call EXCEPT ![i] =
                       [impl |-> impl, manifest |-> executor, skill |-> skill,
                        inputs |-> resolved_inputs, step |-> step]]
                /\ pc' = [pc EXCEPT ![i] = "await"]
                /\ log' = [log EXCEPT ![i] =
                       @ \o before \o GetExecutorEvents(skill, idx[i])
                         \o <<(<<"validate", idx[i]>>), (<<impl, idx[i]>>)>>]
    /\ UNCHANGED <<registry_skills, registry_flows, registry_loaded, disk, env_mock,
                   flow_arg, mock_arg, mock_mode,
                   idx, context, step_results, result>>

\* the awaited implementation returns an output dict
ImplReturn(i, output) ==
    /\ pc[i] = "await"
    /\ RecordStep(i, call[i].step,
           recorded_result(success_result(call[i].manifest, call[i].step.id, output),
                           call[i].skill, call[i].inputs),
           <<(<<"returned", idx[i]>>)>>)
    /\ call' = [call EXCEPT ![i] = NoCall]
    /\ UNCHANGED <<engineVars, flow_arg, mock_arg, mock_mode, result>>

\* the awaited implementation raises TimeoutError or another Exception; what no
\* except clause of execute() catches leaves execute_flow as an exception
ImplRaise(i, failure) ==
    /\ pc[i] = "await"
    /\ IF except_clause(failure.kind) = "none"
       THEN /\ pc' = [pc EXCEPT ![i] = "raised"]
            /\ log' = [log EXCEPT ![i] = @ \o <<(<<"raised", idx[i]>>)>>]
            /\ UNCHANGED <<idx, context, step_results>>
       ELSE RecordStep(i, call[i].step,
                recorded_result(handle_fallback(call[i].manifest, call[i].step.id,
                                                except_error(failure.kind, failure.msg)),
                                call[i].skill, call[i].inputs),
                <<(<<"raised", idx[i]>>)>>)
    /\ call' = [call EXCEPT ![i] = NoCall]
    /\ UNCHANGED <<engineVars, flow_arg, mock_arg, mock_mode, result>>

\* fault variant of flow_status: a failed step fails the flow
flow_status_of_steps(results) ==
    IF \E sid \in DOMAIN results : results[sid].status = FAILURE
    THEN FAILURE ELSE SUCCESS

\* the status of the FlowResult of a flow that was found
flow_status(results) == SUCCESS

\* after the last step: _build_response and the FlowResult
FinishFlow(i) ==
    /\ pc[i] = "loop"
    /\ idx[i] > Len(FlowOf(i).steps)
    /\ result' = [result EXCEPT ![i] =
           FlowResult(flow_arg[i], flow_status(step_results[i]),
                      build_response(FlowOf(i), context[i]),
                      step_results[i], FlowOf(i).display, None)]
    /\ pc' = [pc EXCEPT ![i] = "done"]
    /\ log' = [log EXCEPT ![i] = @ \o <<(<<"build_response", 0>>)>>]
    /\ UNCHANGED <<engineVars, flow_arg, mock_arg, mock_mode, idx, context, step_results, call>>

Next ==
    \E i \in Invs :
        \/ \E fid \in FlowIds, mm \in MockArgs : FlowNotFound(i, fid, mm)
        \/ \E fid \in FlowIds, req \in Requests, mm \in MockArgs : StartFlow(i, fid, req, mm)
        \/ SkipStep(i)
        \/ SkillNotFound(i)
        \/ ValidationFailed(i)
        \/ ExecuteStep(i)
        \/ \E output \in ImplOutputs : ImplReturn(i, output)
        \/ \E failure \in ImplFailures : ImplRaise(i, failure)
        \/ FinishFlow(i)

Spec == Init /\ [][Next]_vars

-----------------------------------------------------------------------------
(* Concurrent invocations of execute_flow on one engine.  execute_flow is a     *)
(* coroutine: another invocation runs only while this one is suspended at the   *)
(* await of executor.execute, which is where the actions above end.             *)

\* the callers of the engine
ConcInvs == {"i1", "i2"}

\* the step of the pool with the id
PoolStep(id) == CHOOSE step \in StepPool : step.id = id

\* the flows the concurrent callers run
ConcStepSeqs ==
    { <<PoolStep("s1"), PoolStep("s2")>>,
      <<PoolStep("s1"), PoolStep("s5")>>,
      <<PoolStep("s4"), PoolStep("s1")>> }

\* the mock_mode argument of the concurrent callers: the default
ConcMockArgs == { None }

InitConc ==
    /\ registry_skills = LoadedSkills
    /\ registry_flows \in { ("main" :> FlowDefinition("main", ss)) : ss \in ConcStepSeqs }
    /\ registry_loaded = TRUE
    /\ disk = NoDisk
    /\ env_mock \in BOOLEAN
    /\ executor_cache = EmptyMap
    /\ pc = [i \in ConcInvs |-> "idle"]
    /\ flow_arg = [i \in ConcInvs |-> "main"]
    /\ mock_arg = [i \in ConcInvs |-> None]
    /\ mock_mode = [i \in ConcInvs |-> FALSE]
    /\ idx = [i \in ConcInvs |-> 0]
    /\ context = [i \in ConcInvs |-> None]
    /\ step_results = [i \in ConcInvs |-> EmptyMap]
    /\ call = [i \in ConcInvs |-> NoCall]
    /\ result = [i \in ConcInvs |-> NoResult]
    /\ log = [i \in ConcInvs |-> <<>>]

NextConc ==
    \E i \in ConcInvs :
        \/ \E fid \in FlowIds, mm \in ConcMockArgs : FlowNotFound(i, fid, mm)
        \/ \E fid \in FlowIds, req \in Requests, mm \in ConcMockArgs :
               StartFlow(i, fid, req, mm)
        \/ SkipStep(i)
        \/ SkillNotFound(i)
        \/ ValidationFailed(i)
        \/ ExecuteStep(i)
        \/ \E output \in ImplOutputs : ImplReturn(i, output)
        \/ \E failure \in ImplFailures : ImplRaise(i, failure)
        \/ FinishFlow(i)

SpecConc == InitConc /\ [][NextConc]_vars

-----------------------------------------------------------------------------
(* BaseExecutor.execute called directly on an executor, as test_executors.py does *)

\* input schemas, output schemas and fallback configurations of the manifests
InputSchemas ==
    { <<>>,
      <<FieldSchema("q", TRUE, None)>>,
      <<FieldSchema("q", FALSE, None)>>,
      <<FieldSchema("k", FALSE, None), FieldSchema("q", TRUE, None)>>,
      <<FieldSchema("q", TRUE, None), FieldSchema("k", TRUE, None)>> }

OutputSchemas == { <<>>, <<FieldSchema("answer", TRUE, Word("n/a"))>> }

Fallbacks ==
    { FallbackConfig(st, pf, dv) :
        st \in {PASSTHROUGH, DEFAULT_VALUE, SKIP},
        pf \in {None, Word("q")},
        dv \in {None, Word("fallback_data"), Dict([result |-> Word("fallback_data")]),
                Num(0), Dict(EmptyMap)} }

\* the manifests executors are constructed from
Manifests ==
    { SkillManifest("test_func", "function", ins, outs, fb, me) :
        ins \in InputSchemas, outs \in OutputSchemas, fb \in Fallbacks, me \in BOOLEAN }

\* the inputs dicts handed to execute()
InputDicts ==
    { EmptyMap, [q |-> Word("test")], [q |-> None], [k |-> Num(1)],
      [q |-> Word("test"), k |-> Num(1)] }

\* execute(inputs, step_id, mock_mode) returns from the validation branch
DirectInvalid(i, manifest, inputs, mock) ==
    /\ pc[i] = "idle"
    /\ validate_inputs(manifest.input_schema, inputs) # None
    /\ result' = [result EXCEPT ![i] =
           handle_fallback(manifest, "test",
                           validate_inputs(manifest.input_schema, inputs).s)]
    /\ call' = [call EXCEPT ![i] =
           [impl |-> "none", manifest |-> manifest, inputs |-> inputs,
            mock |-> mock, outcome |-> [kind |-> "invalid"]]]
    /\ pc' = [pc EXCEPT ![i] = "x_done"]
    /\ log' = [log EXCEPT ![i] = @ \o <<(<<"validate", 0>>)>>]
    /\ UNCHANGED <<engineVars, flow_arg, mock_arg, mock_mode, idx, context, step_results>>

\* execute() reaches the await of _mock_execute or _execute
DirectDispatch(i, manifest, inputs, mock) ==
    /\ pc[i] = "idle"
    /\ validate_inputs(manifest.input_schema, inputs) = None
    /\ call' = [call EXCEPT ![i] =
           [impl |-> dispatch_impl(manifest, mock), manifest |-> manifest,
            inputs |-> inputs, mock |-> mock, outcome |-> [kind |-> "pending"]]]
    /\ pc' = [pc EXCEPT ![i] = "x_await"]
    /\ log' = [log EXCEPT ![i] =
           @ \o <<(<<"validate", 0>>), (<<dispatch_impl(manifest, mock), 0>>)>>]
    /\ UNCHANGED <<engineVars, flow_arg, mock_arg, mock_mode, idx, context, step_results, result>>

\* the implementation returns: the SkillResult of the try block
DirectReturn(i, output) ==
    /\ pc[i] = "x_await"
    /\ result' = [result EXCEPT ![i] = success_result(call[i].manifest, "test", output)]
    /\ call' = [call EXCEPT ![i].outcome = [kind |-> "returned", output |-> output]]
    /\ pc' = [pc EXCEPT ![i] = "x_done"]
    /\ log' = [log EXCEPT ![i] = @ \o <<(<<"returned", 0>>)>>]
    /\ UNCHANGED <<engineVars, flow_arg, mock_arg, mock_mode, idx, context, step_results>>

\* the implementation raises: the except clauses of execute()
DirectRaise(i, failure) ==
    /\ pc[i] = "x_await"
    /\ IF except_clause(failure.kind) = "none"
       THEN /\ pc' = [pc EXCEPT ![i] = "x_raised"]
            /\ UNCHANGED result
       ELSE /\ pc' = [pc EXCEPT ![i] = "x_done"]
            /\ result' = [result EXCEPT ![i] =
                   handle_fallback(call[i].manifest, "test",
                                   except_error(failure.kind, failure.msg))]
    /\ call' = [call EXCEPT ![i].outcome = failure]
    /\ log' = [log EXCEPT ![i] = @ \o <<(<<"raised", 0>>)>>]
    /\ UNCHANGED <<engineVars, flow_arg, mock_arg, mock_mode, idx, context, step_results>>

InitInvoke ==
    /\ registry_skills = EmptyMap
    /\ registry_flows = EmptyMap
    /\ registry_loaded = TRUE
    /\ disk = NoDisk
    /\ env_mock = FALSE
    /\ executor_cache = EmptyMap
    /\ pc = [i \in Invs |-> "idle"]
    /\ flow_arg = [i \in Invs |-> "main"]
    /\ mock_arg = [i \in Invs |-> None]
    /\ mock_mode = [i \in Invs |-> FALSE]
    /\ idx = [i \in Invs |-> 0]
    /\ context = [i \in Invs |-> None]
    /\ step_results = [i \in Invs |-> EmptyMap]
    /\ call = [i \in Invs |-> NoCall]
    /\ result = [i \in Invs |-> NoResult]
    /\ log = [i \in Invs |-> <<>>]

NextInvoke ==
    \E i \in Invs :
        \/ \E manifest \in Manifests, inputs \in InputDicts, mock \in BOOLEAN :
              DirectInvalid(i, manifest, inputs, mock)
        \/ \E manifest \in Manifests, inputs \in InputDicts, mock \in BOOLEAN :
              DirectDispatch(i, manifest, inputs, mock)
        \/ \E output \in ImplOutputs : DirectReturn(i, output)
        \/ \E failure \in ImplFailures : DirectRaise(i, failure)

SpecInvoke == InitInvoke /\ [][NextInvoke]_vars

-----------------------------------------------------------------------------
(* The resolution and condition functions of the engine applied to a context, *)
(* as test_engine.py calls them                                                *)

\* values a request field or a step output field may hold
EvalValues ==
    { None, Word("ok"), Str(<<>>), Num(0), Num(7), Bool(FALSE), Bool(TRUE),
      List(<<>>), List(<<Num(1)>>), Dict(EmptyMap), Dict([a |-> Num(1)]),
      Str(<<"\"", "ok", "\"">>), Str(<<" ", "ok">>),
      Str(<<"a", "!", "=", "b">>), Str(IsEmpty),
      Str(Ref(<<"request", ".", "name">>)) }

\* context["steps"][step_id] = {"output": output, "status": status}
StepEntry(output, status) == Dict([output |-> Dict(output), status |-> Word(status)])

EvalRequests ==
    { EmptyMap, [q |-> Word("hotels")], [name |-> Word("bob")], [q |-> None] }

\* context["steps"]: step ids are arbitrary strings, "steps" and "request" included
EvalStepMaps ==
    { EmptyMap, ("s1" :> StepEntry(EmptyMap, "skipped")),
      ("steps" :> StepEntry([f |-> Word("ok")], "success")),
      ("request" :> StepEntry([q |-> Word("shadow")], "success")) }
    \cup { ("s1" :> StepEntry([f |-> v], "success")) : v \in EvalValues }

EvalContexts ==
    { Dict([request |-> Dict(req), steps |-> Dict(sm)]) :
        req \in EvalRequests, sm \in EvalStepMaps }

\* references handed to _resolve_reference
EvalReferences ==
    { Ref(<<"request", ".", "q">>), Ref(<<"request", ".", "name">>),
      Ref(<<"s1", ".", "output", ".", "f">>), Ref(<<"s1", ".", "output", ".", "g">>),
      Ref(<<"s1", ".", "status">>), Ref(<<"s2", ".", "output", ".", "f">>),
      Ref(<<"steps", ".", "output", ".", "f">>),
      Ref(<<"steps", ".", "s1", ".", "output", ".", "f">>),
      Ref(<<"request", ".", "output", ".", "q">>),
      Ref(<<"request", ".", "q", ".", "deep">>),
      Ref(<<"nowhere">>), Ref(<<"q">>), <<"s1", ".", "output", ".", "f">> }

\* the value an evaluation returned
Evaluated(v) == [status |-> "evaluated", value |-> v]

\* fault variant of context_after: the step entries read are popped from the context
context_after_popped(ctx) ==
    Dict([request |-> ctx.m.request, steps |-> Dict(EmptyMap)])

\* the context dict after _resolve_reference, _resolve_string_vars,
\* _resolve_step_inputs, _evaluate_condition or _build_response returned: they
\* read it with "in" and [] only and assign nothing in it
context_after(ctx) == ctx

\* engine._resolve_reference(reference, context)
EvalReference(i, reference) ==
    /\ pc[i] = "idle"
    /\ call' = [call EXCEPT ![i] =
           [impl |-> "none", fn |-> "resolve_reference", arg |-> reference]]
    /\ result' = [result EXCEPT ![i] =
           Evaluated(resolve_reference(reference, context[i]))]
    /\ pc' = [pc EXCEPT ![i] = "e_done"]
    /\ context' = [context EXCEPT ![i] = context_after(@)]
    /\ UNCHANGED <<engineVars, flow_arg, mock_arg, mock_mode, idx, step_results, log>>

\* a string as its pieces: literal text without tokens, and ${...} tokens
Lit(text) == [kind |-> "lit", text |-> text]
Tok(path) == [kind |-> "tok", text |-> Ref(path)]

\* "".join(pieces)
RECURSIVE Flatten(_)
Flatten(pieces) ==
    IF pieces = <<>> THEN <<>> ELSE Head(pieces).text \o Flatten(Tail(pieces))

\* strings handed to _resolve_string_vars
EvalTexts ==
    { <<>>,
      <<Lit(<<"Search", " ", "for", " ">>), Tok(<<"request", ".", "name">>)>>,
      <<Tok(<<"s1", ".", "output", ".", "f">>)>>,
      <<Lit(<<"a", " ">>), Tok(<<"request", ".", "zz">>), Lit(<<" ", "b", " ">>),
        Tok(<<"s1", ".", "output", ".", "f">>)>>,
      <<Tok(<<"request", ".", "q">>), Tok(<<"request", ".", "q">>)>>,
      <<Lit(<<"$", "5", " ", "{", "x", "}", " ", "$", "{", "}">>)>>,
      <<Lit(<<"}", "$">>), Tok(<<"s1", ".", "status">>), Lit(<<"{">>)>> }

\* engine._resolve_string_vars(text, context)
EvalStringVars(i, pieces) ==
    /\ pc[i] = "idle"
    /\ call' = [call EXCEPT ![i] =
           [impl |-> "none", fn |-> "resolve_string_vars", arg |-> pieces]]
    /\ result' = [result EXCEPT ![i] =
           Evaluated(resolve_string_vars(Flatten(pieces), context[i]))]
    /\ pc' = [pc EXCEPT ![i] = "e_done"]
    /\ context' = [context EXCEPT ![i] = context_after(@)]
    /\ UNCHANGED <<engineVars, flow_arg, mock_arg, mock_mode, idx, step_results, log>>

\* steps handed to _resolve_step_inputs: reference bindings and literal bindings
EvalSteps ==
    { FlowStep("x", "a", <<StepInput("in", None, Str(r))>>, None) :
        r \in { Ref(<<"s1", ".", "output", ".", "f">>), Ref(<<"request", ".", "q">>),
                Ref(<<"s2", ".", "output", ".", "f">>) } }
    \cup { FlowStep("x", "a", <<StepInput("in", v, None)>>, None) :
        v \in { Num(7), None, List(<<>>),
                Str(<<"find", " ">> \o Ref(<<"request", ".", "name">>)),
                Str(Ref(<<"s1", ".", "output", ".", "f">>)) } }
    \cup { FlowStep("x", "a",
               <<StepInput("in", Word("first"), None),
                 StepInput("other", None, Str(Ref(<<"s1", ".", "status">>))),
                 StepInput("in", Word("unused"), Str(Ref(<<"request", ".", "name">>)))>>,
               None) }

\* engine._resolve_step_inputs(step, context)
EvalStepInputs(i, step) ==
    /\ pc[i] = "idle"
    /\ call' = [call EXCEPT ![i] =
           [impl |-> "none", fn |-> "resolve_step_inputs", arg |-> step]]
    /\ result' = [result EXCEPT ![i] = Evaluated(resolve_step_inputs(step, context[i]))]
    /\ pc' = [pc EXCEPT ![i] = "e_done"]
    /\ context' = [context EXCEPT ![i] = context_after(@)]
    /\ UNCHANGED <<engineVars, flow_arg, mock_arg, mock_mode, idx, step_results, log>>

\* the left-hand references of the conditions
EvalLefts ==
    { Ref(<<"s1", ".", "output", ".", "f">>), Ref(<<"request", ".", "q">>),
      Ref(<<"s2", ".", "output", ".", "f">>) }

\* ' == "ok"' and ' != "ok"'
EqOk == <<" ", "=", "=", " ", "\"", "ok", "\"">>
NeOk == <<" ", "!", "=", " ", "\"", "ok", "\"">>

\* conditions handed to _evaluate_condition
EvalConditions ==
    { left \o op : left \in EvalLefts,
                   op \in { EqOk, NeOk, <<" ">> \o IsEmpty, <<" ">> \o IsNotEmpty } }
    \cup { Ref(<<"s1", ".", "status">>) \o <<" ", "=", "=", " ", "\"", "success", "\"">>,
           Ref(<<"request", ".", "q">>),
           NotPrefix \o Ref(<<"request", ".", "q">>),
           NotPrefix \o Ref(<<"s1", ".", "status">>)
               \o <<" ", "=", "=", " ", "\"", "success", "\"">>,
           NotPrefix \o NotPrefix \o NotPrefix \o Ref(<<"request", ".", "q">>),
           Ref(<<"s2", ".", "output", ".", "f">>) }

\* engine._evaluate_condition(condition, context); the call keeps the branch taken
EvalCondition(i, condition) ==
    /\ pc[i] = "idle"
    /\ call' = [call EXCEPT ![i] =
           [impl |-> "none", fn |-> "evaluate_condition", arg |-> condition,
            rule |-> ConditionRule(resolve_string_vars(condition, context[i]))]]
    /\ result' = [result EXCEPT ![i] =
           Evaluated(evaluate_condition(condition, context[i]))]
    /\ pc' = [pc EXCEPT ![i] = "e_done"]
    /\ context' = [context EXCEPT ![i] = context_after(@)]
    /\ UNCHANGED <<engineVars, flow_arg, mock_arg, mock_mode, idx, step_results, log>>

\* flows handed to _build_response: their response mappings
EvalFlows ==
    { [flow_id |-> "test", steps |-> <<>>, display |-> Word("inline"), response |-> ms] :
        ms \in { <<>>,
                 <<ResponseMapping("answer", Str(Ref(<<"s1", ".", "output", ".", "f">>)), None),
                   ResponseMapping("count", Str(Ref(<<"request", ".", "q">>)), Num(0))>>,
                 <<ResponseMapping("missing", Str(Ref(<<"none", ".", "output", ".", "field">>)),
                                   Word("fallback")),
                   ResponseMapping("fixed", None, Word("v1"))>> } }

\* engine._build_response(flow, context)
EvalBuildResponse(i, flow) ==
    /\ pc[i] = "idle"
    /\ call' = [call EXCEPT ![i] =
           [impl |-> "none", fn |-> "build_response", arg |-> flow]]
    /\ result' = [result EXCEPT ![i] = Evaluated(build_response(flow, context[i]))]
    /\ pc' = [pc EXCEPT ![i] = "e_done"]
    /\ context' = [context EXCEPT ![i] = context_after(@)]
    /\ UNCHANGED <<engineVars, flow_arg, mock_arg, mock_mode, idx, step_results, log>>

\* what the function of a call returns for its argument on the context
Reapply(c, ctx) ==
    CASE c.fn = "resolve_reference" -> resolve_reference(c.arg, ctx)
      [] c.fn = "resolve_string_vars" -> resolve_string_vars(Flatten(c.arg), ctx)
      [] c.fn = "resolve_step_inputs" -> resolve_step_inputs(c.arg, ctx)
      [] c.fn = "evaluate_condition" -> evaluate_condition(c.arg, ctx)
      [] c.fn = "build_response" -> build_response(c.arg, ctx)

\* the caller makes the same call a second time on the context as the first
\* call left it
EvalAgain(i) ==
    /\ pc[i] = "e_done"
    /\ result' = [result EXCEPT ![i] = Evaluated(Reapply(call[i], context[i]))]
    /\ pc' = [pc EXCEPT ![i] = "e_again"]
    /\ context' = [context EXCEPT ![i] = context_after(@)]
    /\ UNCHANGED <<engineVars, flow_arg, mock_arg, mock_mode, idx, step_results, call, log>>

InitEval ==
    /\ registry_skills = EmptyMap
    /\ registry_flows = EmptyMap
    /\ registry_loaded = TRUE
    /\ disk = NoDisk
    /\ env_mock = FALSE
    /\ executor_cache = EmptyMap
    /\ pc = [i \in Invs |-> "idle"]
    /\ flow_arg = [i \in Invs |-> "main"]
    /\ mock_arg = [i \in Invs |-> None]
    /\ mock_mode = [i \in Invs |-> FALSE]
    /\ idx = [i \in Invs |-> 0]
    /\ context \in [Invs -> EvalContexts]
    /\ step_results = [i \in Invs |-> EmptyMap]
    /\ call = [i \in Invs |-> NoCall]
    /\ result = [i \in Invs |-> NoResult]
    /\ log = [i \in Invs |-> <<>>]

NextEval ==
    \E i \in Invs :
        \/ \E reference \in EvalReferences : EvalReference(i, reference)
        \/ \E pieces \in EvalTexts : EvalStringVars(i, pieces)
        \/ \E step \in EvalSteps : EvalStepInputs(i, step)
        \/ \E condition \in EvalConditions : EvalCondition(i, condition)
        \/ \E flow \in EvalFlows : EvalBuildResponse(i, flow)
        \/ EvalAgain(i)

SpecEval == InitEval /\ [][NextEval]_vars

-----------------------------------------------------------------------------
(* registry.py: SkillRegistry, loading from disk and programmatic registration *)

\* a manifest.yaml or a flow file: "valid" holds an entry that fits the model;
\* "empty" parses to nothing, "unreadable" is not YAML, "invalid" does not fit
Source(kind, entry) == [kind |-> kind, entry |-> entry]

\* _load_skill(manifest_path): every failure is caught and the source skipped
load_skill(source, skills) ==
    IF source.kind = "valid"
    THEN (source.entry.skill_id :> source.entry) @@ skills
    ELSE skills

\* _load_all_skills(): the skill directories in sorted order
RECURSIVE load_all_skills(_, _)
load_all_skills(sources, skills) ==
    IF sources = <<>> THEN skills
    ELSE load_all_skills(Tail(sources), load_skill(Head(sources), skills))

\* _load_flow(flow_path)
load_flow(source, flows) ==
    IF source.kind = "valid"
    THEN (source.entry.flow_id :> source.entry) @@ flows
    ELSE flows

\* _load_all_flows(): the flow files in sorted order
RECURSIVE load_all_flows(_, _)
load_all_flows(sources, flows) ==
    IF sources = <<>> THEN flows
    ELSE load_all_flows(Tail(sources), load_flow(Head(sources), flows))

\* load() raises: skill_registry.yaml is read to data that RegistryConfig(**data)
\* rejects, outside any try
load_raises == disk.config = "invalid"

\* _ensure_loaded() calls load(): "if not self._loaded"
ensure_loads == ~registry_loaded

\* what an operation of the registry returned, or that it raised
Returned(v) == [status |-> "returned", value |-> v]
Raised == [status |-> "raised"]

\* operations one caller makes on a registry
MaxOps == 3

\* the manifests and flows callers register, and the ids they ask for
RegSkills ==
    { [LoadedSkills["lookup"] EXCEPT !.mock_enabled = TRUE], LoadedSkills["echo"] }
RegFlows == { FlowDefinition("main", <<PoolStep("s3")>>) }
RegSkillIds == { "lookup", "echo" }
RegFlowIds == { "main" }

\* what base_dir may hold
Disks ==
    { [config |-> config, skills |-> skills, flows |-> flows] :
        config \in { "absent", "valid", "invalid" },
        skills \in { <<>>,
                     <<Source("invalid", None), Source("valid", LoadedSkills["lookup"]),
                       Source("valid", LoadedSkills["rewriter"])>> },
        flows \in { <<>>,
                    <<Source("valid", FlowDefinition("main", <<>>)),
                      Source("unreadable", None)>> } }

\* load() called by invocation i, which gets the value when load() returns
LoadBody(i, value) ==
    IF load_raises
    THEN /\ result' = [result EXCEPT ![i] = Raised]
         /\ UNCHANGED <<registry_skills, registry_flows, registry_loaded>>
    ELSE /\ registry_skills' = load_all_skills(disk.skills, registry_skills)
         /\ registry_flows' = load_all_flows(disk.flows, registry_flows)
         /\ registry_loaded' = TRUE
         /\ result' = [result EXCEPT ![i] = Returned(value)]

\* registry.load()
Load(i) ==
    /\ pc[i] = "idle" /\ Len(log[i]) < MaxOps
    /\ LoadBody(i, None)
    /\ log' = [log EXCEPT ![i] = Append(@, [op |-> "load"])]
    /\ UNCHANGED <<disk, env_mock, executor_cache, pc, flow_arg, mock_arg, mock_mode,
                   idx, context, step_results, call>>

\* registry.register_skill(manifest)
RegisterSkill(i, manifest) ==
    /\ pc[i] = "idle" /\ Len(log[i]) < MaxOps
    /\ registry_skills' = (manifest.skill_id :> manifest) @@ registry_skills
    /\ result' = [result EXCEPT ![i] = Returned(None)]
    /\ log' = [log EXCEPT ![i] =
           Append(@, [op |-> "register_skill", id |-> manifest.skill_id, entry |-> manifest])]
    /\ UNCHANGED <<registry_flows, registry_loaded, disk, env_mock, executor_cache, pc,
                   flow_arg, mock_arg, mock_mode, idx, context, step_results, call>>

\* registry.register_flow(flow)
RegisterFlow(i, flow) ==
    /\ pc[i] = "idle" /\ Len(log[i]) < MaxOps
    /\ registry_flows' = (flow.flow_id :> flow) @@ registry_flows
    /\ result' = [result EXCEPT ![i] = Returned(None)]
    /\ log' = [log EXCEPT ![i] =
           Append(@, [op |-> "register_flow", id |-> flow.flow_id, entry |-> flow])]
    /\ UNCHANGED <<registry_skills, registry_loaded, disk, env_mock, executor_cache, pc,
                   flow_arg, mock_arg, mock_mode, idx, context, step_results, call>>

\* registry.get_skill(skill_id): _ensure_loaded(), then self._skills.get(skill_id)
GetSkill(i, skill_id) ==
    /\ pc[i] = "idle" /\ Len(log[i]) < MaxOps
    /\ IF ensure_loads
       THEN LoadBody(i, Get(load_all_skills(disk.skills, registry_skills), skill_id))
       ELSE /\ result' = [result EXCEPT ![i] = Returned(Get(registry_skills, skill_id))]
            /\ UNCHANGED <<registry_skills, registry_flows, registry_loaded>>
    /\ log' = [log EXCEPT ![i] = Append(@, [op |-> "get_skill", id |-> skill_id])]
    /\ UNCHANGED <<disk, env_mock, executor_cache, pc, flow_arg, mock_arg, mock_mode,
                   idx, context, step_results, call>>

\* registry.get_flow(flow_id): _ensure_loaded(), then self._flows.get(flow_id)
GetFlow(i, flow_id) ==
    /\ pc[i] = "idle" /\ Len(log[i]) < MaxOps
    /\ IF ensure_loads
       THEN LoadBody(i, Get(load_all_flows(disk.flows, registry_flows), flow_id))
       ELSE /\ result' = [result EXCEPT ![i] = Returned(Get(registry_flows, flow_id))]
            /\ UNCHANGED <<registry_skills, registry_flows, registry_loaded>>
    /\ log' = [log EXCEPT ![i] = Append(@, [op |-> "get_flow", id |-> flow_id])]
    /\ UNCHANGED <<disk, env_mock, executor_cache, pc, flow_arg, mock_arg, mock_mode,
                   idx, context, step_results, call>>

\* a registry as SkillRegistry(base_dir) constructs it
InitRegistry ==
    /\ registry_skills = EmptyMap
    /\ registry_flows = EmptyMap
    /\ registry_loaded = FALSE
    /\ disk \in Disks
    /\ env_mock = FALSE
    /\ executor_cache = EmptyMap
    /\ pc = [i \in Invs |-> "idle"]
    /\ flow_arg = [i \in Invs |-> "main"]
    /\ mock_arg = [i \in Invs |-> None]
    /\ mock_mode = [i \in Invs |-> FALSE]
    /\ idx = [i \in Invs |-> 0]
    /\ context = [i \in Invs |-> None]
    /\ step_results = [i \in Invs |-> EmptyMap]
    /\ call = [i \in Invs |-> NoCall]
    /\ result = [i \in Invs |-> NoResult]
    /\ log = [i \in Invs |-> <<>>]

NextRegistry ==
    \E i \in Invs :
        \/ Load(i)
        \/ \E manifest \in RegSkills : RegisterSkill(i, manifest)
        \/ \E flow \in RegFlows : RegisterFlow(i, flow)
        \/ \E skill_id \in RegSkillIds : GetSkill(i, skill_id)
        \/ \E flow_id \in RegFlowIds : GetFlow(i, flow_id)

SpecRegistry == InitRegistry /\ [][NextRegistry]_vars

-----------------------------------------------------------------------------
(* register_skill called on the registry of an engine that runs a flow: the     *)
(* caller of register_skill runs while execute_flow is suspended at an await,   *)
(* or before or after it; between two awaits execute_flow runs alone            *)

\* "i1" calls execute_flow, "r" calls register_skill
ReregInvs == {"i1", "r"}

\* the manifest registered for an id the registry holds: a new version of the
\* "rewriter" skill, without required input and with the skip fallback
ReregSkills ==
    { SkillManifest("rewriter", "llm_call", <<>>,
          <<FieldSchema("text", TRUE, None)>>,
          FallbackConfig(SKIP, None, None), FALSE) }

InitRereg ==
    /\ registry_skills = LoadedSkills
    /\ registry_flows \in { ("main" :> FlowDefinition("main", ss)) : ss \in ConcStepSeqs }
    /\ registry_loaded = TRUE
    /\ disk = NoDisk
    /\ env_mock \in BOOLEAN
    /\ executor_cache = EmptyMap
    /\ pc = [i \in ReregInvs |-> "idle"]
    /\ flow_arg = [i \in ReregInvs |-> "main"]
    /\ mock_arg = [i \in ReregInvs |-> None]
    /\ mock_mode = [i \in ReregInvs |-> FALSE]
    /\ idx = [i \in ReregInvs |-> 0]
    /\ context = [i \in ReregInvs |-> None]
    /\ step_results = [i \in ReregInvs |-> EmptyMap]
    /\ call = [i \in ReregInvs |-> NoCall]
    /\ result = [i \in ReregInvs |-> NoResult]
    /\ log = [i \in ReregInvs |-> <<>>]

NextRereg ==
    \/ \E fid \in FlowIds, mm \in MockArgs : FlowNotFound("i1", fid, mm)
    \/ \E fid \in FlowIds, req \in Requests, mm \in MockArgs : StartFlow("i1", fid, req, mm)
    \/ SkipStep("i1")
    \/ SkillNotFound("i1")
    \/ ValidationFailed("i1")
    \/ ExecuteStep("i1")
    \/ \E output \in ImplOutputs : ImplReturn("i1", output)
    \/ \E failure \in ImplFailures : ImplRaise("i1", failure)
    \/ FinishFlow("i1")
    \/ /\ pc["i1"] # "loop"
       /\ \E manifest \in ReregSkills : RegisterSkill("r", manifest)

SpecRereg == InitRereg /\ [][NextRereg]_vars

-----------------------------------------------------------------------------
(* Properties of execute_flow (Spec) *)

\* the steps of the flow invocation i runs
StepsOf(i) == registry_flows[flow_arg[i]].steps

FlowFound(i) == flow_arg[i] \in DOMAIN registry_flows

\* the log of invocation i holds the event
Logged(i, event, k) == \E p \in 1..Len(log[i]) : log[i][p] = <<event, k>>

\* events that start an implementation
ImplEvents == {"execute", "mock_execute"}

\* positions of the log of i where an implementation of step k is started
ImplCalls(i, k) == { p \in 1..Len(log[i]) : log[i][p][1] \in ImplEvents /\ log[i][p][2] = k }

\* invocation i moves in this step
Moves(i) == pc'[i] # pc[i] \/ idx'[i] # idx[i]

\* C1: whatever the outcome of each step (condition false or failing to
\* evaluate, skill not found, missing input, capability exception or timeout),
\* execute_flow never raises, has recorded every step before the one it is at,
\* and returns a FlowResult that holds a result for every declared step.
C1_EveryStepProcessed ==
    \A i \in Invs :
        /\ pc[i] # "raised"
        /\ pc[i] \in {"loop", "await"} =>
              \A k \in 1..(idx[i] - 1) :
                  /\ Logged(i, "record", k)
                  /\ StepsOf(i)[k].id \in DOMAIN step_results[i]
        /\ (pc[i] = "done" /\ FlowFound(i)) =>
              /\ result[i].status # "none"
              /\ \A k \in 1..Len(StepsOf(i)) :
                    /\ Logged(i, "record", k)
                    /\ StepsOf(i)[k].id \in DOMAIN result[i].step_results

\* C1 witness: a flow returned after its first step's capability raised and its
\* second step was processed
C1_Witness ==
    \E i \in Invs :
        /\ pc[i] = "done" /\ FlowFound(i) /\ Len(StepsOf(i)) = 2
        /\ Logged(i, "raised", 1)
        /\ Logged(i, "record", 2)
        /\ result[i].step_results[StepsOf(i)[1].id].status # SUCCESS

\* C2: the FlowResult of a flow that was found has status success whatever the
\* statuses of its steps; the status is failure exactly when the flow is not found.
C2_FlowStatus ==
    \A i \in Invs :
        pc[i] = "done" =>
            /\ FlowFound(i) => result[i].status = SUCCESS
            /\ result[i].status = FAILURE <=> ~FlowFound(i)

\* C2 witness: a found flow returned with one step failed and the other skipped
C2_Witness ==
    \E i \in Invs :
        /\ pc[i] = "done" /\ FlowFound(i) /\ Len(StepsOf(i)) = 2
        /\ \E a, b \in DOMAIN result[i].step_results :
              /\ result[i].step_results[a].status = FAILURE
              /\ result[i].step_results[b].status = SKIPPED

\* C3: for a flow id the registry does not hold, execute_flow returns at once a
\* FlowResult with status failure and the error naming the flow id, with no
\* step results and no response; it evaluates no condition, looks up no skill
\* and starts no implementation.
C3_FlowNotFound ==
    \A i \in Invs :
        (pc[i] # "idle" /\ ~FlowFound(i)) =>
            /\ pc[i] = "done"
            /\ result[i] = FlowResult(flow_arg[i], FAILURE, EmptyMap, EmptyMap, None,
                                      Str(<<"Flow not found: ", flow_arg[i]>>))
            /\ log[i] = <<(<<"get_flow", 0>>)>>
            /\ call[i] = NoCall
            /\ context[i] = None
            /\ executor_cache = EmptyMap

\* C3 witness: an invocation for the unregistered flow id has returned
C3_Witness ==
    \E i \in Invs : pc[i] = "done" /\ flow_arg[i] = "absent" /\ result[i].status = FAILURE

\* C4: the steps of one invocation are processed strictly in declared order:
\* anything done for step k+1 comes after the record of step k, whose entry is
\* then in the context; at most one implementation is in flight; and each
\* step's implementation is started at most once.
C4_Sequential ==
    \A i \in Invs :
        LET started == { p \in 1..Len(log[i]) : log[i][p][1] \in ImplEvents }
            ended == { p \in 1..Len(log[i]) : log[i][p][1] \in {"returned", "raised"} }
        IN  /\ \A q \in 1..Len(log[i]) :
                  log[i][q][2] >= 2 =>
                      \E p \in 1..(q - 1) : log[i][p] = <<"record", log[i][q][2] - 1>>
            /\ \A p, q \in 1..Len(log[i]) :
                  (p < q /\ log[i][q][2] # 0) => log[i][p][2] <= log[i][q][2]
            /\ pc[i] \in {"loop", "await"} =>
                  \A k \in 1..(idx[i] - 1) :
                      StepsOf(i)[k].id \in DOMAIN context[i].m.steps.m
            /\ Cardinality(started) - Cardinality(ended)
                  = (IF pc[i] = "await" THEN 1 ELSE 0)
            /\ (pc[i] = "await") <=> (call[i] # NoCall)
            /\ \A k \in 1..MaxSteps + 1 : Cardinality(ImplCalls(i, k)) <= 1

\* C4 witness: a flow returned after the implementations of both its steps ran
C4_Witness ==
    \E i \in Invs :
        /\ pc[i] = "done" /\ FlowFound(i)
        /\ ImplCalls(i, 1) # {} /\ ImplCalls(i, 2) # {}
        /\ Logged(i, "returned", 1) /\ Logged(i, "raised", 2)

\* C5: when the condition of the step an invocation is at evaluates to false,
\* the invocation records the step as skipped with reason "condition_not_met",
\* writes {output: {}, status: "skipped"} for it in the context and moves to
\* the next step; it resolves no input, looks up no skill, obtains no executor
\* and starts no implementation.
C5_SkipOnFalseCondition ==
    [][\A i \in Invs :
          ( /\ AtStep(i)
            /\ Truthy(StepOf(i).condition)
            /\ ~evaluate_condition(StepOf(i).condition.s, context[i])
            /\ Moves(i) ) =>
              LET step == StepOf(i)
              IN  /\ step_results'[i] =
                        (step.id :> SkillResult(step.skill, step.id, SKIPPED, EmptyMap,
                                        None, [reason |-> Word("condition_not_met")]))
                            @@ step_results[i]
                  /\ context'[i].m.steps.m =
                        (step.id :> Dict([output |-> Dict(EmptyMap),
                                          status |-> Word("skipped")]))
                            @@ context[i].m.steps.m
                  /\ context'[i].m.request = context[i].m.request
                  /\ idx'[i] = idx[i] + 1
                  /\ pc'[i] = "loop"
                  /\ log'[i] = log[i] \o <<(<<"condition", idx[i]>>), (<<"record", idx[i]>>)>>
                  /\ call'[i] = call[i]
                  /\ executor_cache' = executor_cache
      ]_vars

\* C5 witness: a step was skipped on its condition and the invocation went on
C5_Witness ==
    \E i \in Invs :
        /\ pc[i] = "done" /\ FlowFound(i) /\ Len(StepsOf(i)) = 2
        /\ result[i].step_results[StepsOf(i)[1].id].metadata
              = [reason |-> Word("condition_not_met")]
        /\ Logged(i, "record", 2)

\* C6: when the step an invocation is at passes its condition and names a skill
\* the registry does not hold, the invocation records the step with status
\* failure and the error "Skill not found: <skill id>", writes
\* {output: {}, status: "failure"} for it in the context, starts no
\* implementation and moves to the next step.
C6_SkillNotFound ==
    [][\A i \in Invs :
          ( /\ AtStep(i)
            /\ ~(Truthy(StepOf(i).condition)
                 /\ ~evaluate_condition(StepOf(i).condition.s, context[i]))
            /\ StepOf(i).skill \notin DOMAIN registry_skills
            /\ Moves(i) ) =>
              LET step == StepOf(i)
              IN  /\ step_results'[i] =
                        (step.id :> SkillResult(step.skill, step.id, FAILURE, EmptyMap,
                                        Str(<<"Skill not found: ", step.skill>>), EmptyMap))
                            @@ step_results[i]
                  /\ context'[i].m.steps.m =
                        (step.id :> Dict([output |-> Dict(EmptyMap),
                                          status |-> Word("failure")]))
                            @@ context[i].m.steps.m
                  /\ idx'[i] = idx[i] + 1
                  /\ pc'[i] = "loop"
                  /\ call'[i] = NoCall
                  /\ executor_cache' = executor_cache
                  /\ \A p \in (Len(log[i]) + 1)..Len(log'[i]) :
                        log'[i][p][1] \notin ImplEvents \cup {"get_executor", "validate"}
      ]_vars

\* C6 witness: the first step named an unknown skill and the second was processed
C6_Witness ==
    \E i \in Invs :
        /\ pc[i] = "done" /\ FlowFound(i) /\ Len(StepsOf(i)) = 2
        /\ StepsOf(i)[1].skill = "ghost"
        /\ result[i].step_results[StepsOf(i)[1].id].status = FAILURE
        /\ ImplCalls(i, 2) # {}

\* execute() was called by invocation i
Called(i) == pc[i] \in {"x_await", "x_done", "x_raised"}

\* positions of the schema's required fields that the inputs lack
MissingFields(manifest, inputs) ==
    { k \in 1..Len(manifest.input_schema) :
        /\ manifest.input_schema[k].required
        /\ manifest.input_schema[k].name \notin DOMAIN inputs }

\* the step's skill falls back by passthrough of a field the inputs hold
PassesThrough(skill, inputs) ==
    /\ skill.fallback.strategy = PASSTHROUGH
    /\ skill.fallback.passthrough_field.t = "str"
    /\ Len(skill.fallback.passthrough_field.s) = 1
    /\ skill.fallback.passthrough_field.s[1] \in DOMAIN inputs

\* the result and the context entry of step after the passthrough of the input
PassedThrough(i, step, skill, inputs) ==
    LET K == IF Len(skill.output_schema) > 0 THEN skill.output_schema[1].name
             ELSE "result"
        out == (K :> inputs[skill.fallback.passthrough_field.s[1]])
    IN  /\ step_results'[i][step.id].status = FAILURE
        /\ step_results'[i][step.id].output = out
        /\ step_results'[i][step.id].error # None
        /\ context'[i].m.steps.m[step.id] =
               Dict([output |-> Dict(out), status |-> Word("failure")])

\* C12: when the skill of a step falls back by passthrough of field F, F is a
\* key of the step's resolved inputs and the call of the executor fails (the
\* awaited implementation raises, or a required input is missing), the step is
\* recorded with status failure and output exactly {K: resolved_inputs[F]}, K
\* the first declared output field of the skill or "result" when it declares
\* none, and the context entry of the step holds the same output.
C12_TwoPhasePassthrough ==
    [][\A i \in Invs :
          /\ ( /\ pc[i] = "await" /\ pc'[i] = "loop"
               /\ log'[i][Len(log'[i]) - 1] = <<"raised", idx[i]>>
               /\ PassesThrough(call[i].skill, call[i].inputs) ) =>
                 PassedThrough(i, call[i].step, call[i].skill, call[i].inputs)
          /\ ( /\ AtStep(i) /\ pc'[i] = "loop" /\ idx'[i] = idx[i] + 1
               /\ log'[i][Len(log'[i]) - 1] = <<"validate", idx[i]>>
               /\ PassesThrough(registry_skills[StepOf(i).skill],
                                resolve_step_inputs(StepOf(i), context[i])) ) =>
                 PassedThrough(i, StepOf(i), registry_skills[StepOf(i).skill],
                               resolve_step_inputs(StepOf(i), context[i]))
      ]_vars

\* C12 witness: the rewriter's implementation raised and its query was passed
\* through under the first output field; the tagger lacked an input and its text
\* was passed through as well
C12_Witness ==
    \E i \in Invs :
        /\ pc[i] = "done" /\ FlowFound(i) /\ Len(StepsOf(i)) = 2
        /\ StepsOf(i)[1].id = "s1" /\ StepsOf(i)[2].id = "s7"
        /\ Logged(i, "raised", 1)
        /\ result[i].step_results["s1"].output = [rewritten |-> Word("hotels")]
        /\ result[i].step_results["s7"].output = [label |-> Word("hotels")]
        /\ context[i].m.steps.m["s1"].m.output = Dict([rewritten |-> Word("hotels")])

-----------------------------------------------------------------------------
(* Properties of BaseExecutor.execute (SpecInvoke) *)

\* C7: when some required input field of the manifest is absent from the
\* inputs, execute() returns without starting the real implementation or the
\* mock implementation, whatever the mock flag.
C7_NoCallOnMissingInput ==
    \A i \in Invs :
        (Called(i) /\ MissingFields(call[i].manifest, call[i].inputs) # {}) =>
            /\ pc[i] = "x_done"
            /\ call[i].impl = "none"
            /\ \A p \in 1..Len(log[i]) : log[i][p][1] \notin ImplEvents

\* C7 witness: a required input was missing in mock mode on a manifest that allows mocking
C7_Witness ==
    \E i \in Invs :
        /\ pc[i] = "x_done"
        /\ MissingFields(call[i].manifest, call[i].inputs) # {}
        /\ call[i].mock /\ call[i].manifest.mock_enabled
        /\ call[i].manifest.input_schema[1].required = FALSE

\* C8 as stated: a missing required input yields status failure and an error
\* naming the field, for every fallback strategy.
C8_FailureForEveryStrategy ==
    \A i \in Invs :
        (pc[i] = "x_done" /\ MissingFields(call[i].manifest, call[i].inputs) # {}) =>
            /\ result[i].status = FAILURE
            /\ \E k \in MissingFields(call[i].manifest, call[i].inputs) :
                  result[i].error =
                      Str(<<"Missing required input: ", call[i].manifest.input_schema[k].name>>)

\* C8 amended: a missing required input yields an error naming the first
\* missing required field of the schema; the status is failure under
\* passthrough with a non-empty passthrough field and under default_value with a default
\* that is not None, and skipped otherwise (skip, or a strategy without its
\* parameter).
C8_MissingInputByStrategy ==
    \A i \in Invs :
        (pc[i] = "x_done" /\ MissingFields(call[i].manifest, call[i].inputs) # {}) =>
            LET missing == MissingFields(call[i].manifest, call[i].inputs)
                first == CHOOSE k \in missing : \A j \in missing : k <= j
                fb == call[i].manifest.fallback
            IN  /\ result[i].error =
                      Str(<<"Missing required input: ",
                            call[i].manifest.input_schema[first].name>>)
                /\ result[i].status =
                      IF \/ fb.strategy = PASSTHROUGH /\ Truthy(fb.passthrough_field)
                         \/ fb.strategy = DEFAULT_VALUE /\ fb.default_value # None
                      THEN FAILURE ELSE SKIPPED

\* C8 witness: a required input was missing under the skip strategy
C8_Witness ==
    \E i \in Invs :
        /\ pc[i] = "x_done"
        /\ Cardinality(MissingFields(call[i].manifest, call[i].inputs)) = 2
        /\ call[i].manifest.fallback.strategy = SKIP
        /\ result[i].status = SKIPPED

\* C9: execute() never raises what the implementation raised.  Its result has
\* status success, with the implementation's output, exactly when the
\* implementation it awaited returned; when the implementation raised an error
\* or a timeout the result comes from the fallback with status failure or
\* skipped and an error text that is not None.
C9_FailureNeverPropagates ==
    \A i \in Invs :
        /\ pc[i] # "x_raised"
        /\ pc[i] = "x_done" =>
              /\ call[i].outcome.kind = "returned" =>
                    /\ result[i].status = SUCCESS
                    /\ result[i].output = call[i].outcome.output
              /\ call[i].outcome.kind \in {"timeout", "error"} =>
                    /\ result[i].status \in {FAILURE, SKIPPED}
                    /\ result[i].error # None
                    /\ "fallback_strategy" \in DOMAIN result[i].metadata
              /\ result[i].status = SUCCESS => call[i].outcome.kind = "returned"

\* C9 witness: the implementation raised an exception with an empty message
C9_Witness ==
    \E i \in Invs :
        /\ pc[i] = "x_done"
        /\ call[i].outcome.kind = "error"
        /\ result[i].error = Str(<<>>)
        /\ result[i].status = FAILURE

\* C10: under the skip strategy every failed call of execute() -- a missing
\* input, an error or a timeout of the implementation -- yields status skipped
\* and the empty output, whatever the error and the other fallback parameters.
C10_SkipStrategy ==
    \A i \in Invs :
        ( /\ pc[i] = "x_done"
          /\ \/ call[i].manifest.fallback.strategy = SKIP
             \/ call[i].manifest.fallback = DefaultFallback
          /\ call[i].outcome.kind # "returned" ) =>
            /\ result[i].status = SKIPPED
            /\ result[i].output = EmptyMap
            /\ result[i].error # None

\* C10 witness: a timeout under skip, on a manifest that also configures a
\* passthrough field and a default value
C10_Witness ==
    \E i \in Invs :
        /\ pc[i] = "x_done"
        /\ call[i].manifest.fallback.strategy = SKIP
        /\ call[i].manifest.fallback.passthrough_field # None
        /\ call[i].manifest.fallback.default_value # None
        /\ call[i].outcome.kind = "timeout"
        /\ result[i].status = SKIPPED

\* C11: under the default_value strategy with a configured default V (any value
\* but None, the falsy ones included) every failed call of execute() -- a
\* missing input, an error or a timeout -- yields status failure with output
\* exactly V when V is a map and exactly {"result": V} when it is not.
C11_DefaultValueStrategy ==
    \A i \in Invs :
        LET fb == call[i].manifest.fallback
        IN  ( /\ pc[i] = "x_done"
              /\ fb.strategy = DEFAULT_VALUE
              /\ fb.default_value # None
              /\ call[i].outcome.kind # "returned" ) =>
                /\ result[i].status = FAILURE
                /\ result[i].output =
                      IF fb.default_value \in { Dict(EmptyMap),
                                                Dict([result |-> Word("fallback_data")]) }
                      THEN fb.default_value.m
                      ELSE [result |-> fb.default_value]

\* C11 witness: an implementation error under default_value with the default 0
C11_Witness ==
    \E i \in Invs :
        /\ pc[i] = "x_done"
        /\ call[i].manifest.fallback = FallbackConfig(DEFAULT_VALUE, Word("q"), Num(0))
        /\ call[i].outcome.kind = "error"
        /\ result[i].output = [result |-> Num(0)]

-----------------------------------------------------------------------------
(* Properties of the resolution and condition functions (SpecEval) *)

\* invocation i evaluated the function fn
Ran(i, fn) == pc[i] = "e_done" /\ call[i].fn = fn

\* the request and the steps of the context of invocation i
RequestOf(i) == context[i].m.request.m
StepMapOf(i) == context[i].m.steps.m

\* the reference is "${request.X}", or "${sid.output.Y}"
IsRequestRef(r) == Len(r) = 6 /\ SubSeq(r, 1, 4) = <<"$", "{", "request", ".">> /\ r[6] = "}"
IsOutputRef(r) ==
    /\ Len(r) = 8 /\ SubSeq(r, 1, 2) = <<"$", "{">>
    /\ SubSeq(r, 4, 6) = <<".", "output", ".">> /\ r[8] = "}"

\* what the grammar of the specification yields for "${sid.output.Y}"
RecordedOutput(i, sid, Y) ==
    IF sid \in DOMAIN StepMapOf(i) /\ Y \in DOMAIN StepMapOf(i)[sid].m.output.m
    THEN StepMapOf(i)[sid].m.output.m[Y] ELSE None

\* C14 as stated: ${request.X} resolves to request[X] when X is in the request
\* and to None otherwise; ${step_id.output.Y} resolves to the recorded output[Y]
\* of a step in context.steps and to None otherwise, for every step id.
C14_ResolveAnyStepId ==
    \A i \in Invs :
        Ran(i, "resolve_reference") =>
            /\ IsRequestRef(call[i].arg) =>
                  result[i].value = Get(RequestOf(i), call[i].arg[5])
            /\ IsOutputRef(call[i].arg) =>
                  result[i].value = RecordedOutput(i, call[i].arg[3], call[i].arg[7])

\* C14 amended: the same, for every step id other than the keys of the context
\* itself, "request" and "steps": a first segment that is a key of the context
\* is resolved from the context's top level, not as a step id.
C14_ResolveRequestAndSteps ==
    \A i \in Invs :
        Ran(i, "resolve_reference") =>
            /\ IsRequestRef(call[i].arg) =>
                  result[i].value = Get(RequestOf(i), call[i].arg[5])
            /\ (IsOutputRef(call[i].arg) /\ call[i].arg[3] \notin {"request", "steps"}) =>
                  result[i].value = RecordedOutput(i, call[i].arg[3], call[i].arg[7])
            /\ (IsOutputRef(call[i].arg) /\ call[i].arg[3] \in {"request", "steps"}) =>
                  result[i].value =
                      Walk(context[i], <<(<<call[i].arg[3]>>), (<<"output">>),
                                         (<<call[i].arg[7]>>)>>)

\* C14 witness: ${s1.output.f} resolved to the recorded number 0
C14_Witness ==
    \E i \in Invs :
        /\ Ran(i, "resolve_reference")
        /\ call[i].arg = Ref(<<"s1", ".", "output", ".", "f">>)
        /\ "s1" \in DOMAIN StepMapOf(i)
        /\ result[i].value = Num(0)

\* the first segment of a reference "${first...}"
FirstSegment(r) == SplitDots(SubSeq(r, 3, Len(r) - 1))[1]

IsBracedRef(r) == Len(r) >= 4 /\ SubSeq(r, 1, 2) = <<"$", "{">> /\ r[Len(r)] = "}"

\* C15 as stated: a reference whose first segment is neither "request" nor a step
\* id in context.steps resolves to None, whatever the rest of the path.
C15_UnknownNamespaceIsNull ==
    \A i \in Invs :
        ( /\ Ran(i, "resolve_reference") /\ IsBracedRef(call[i].arg)
          /\ FirstSegment(call[i].arg) # <<"request">>
          /\ KeyOf(FirstSegment(call[i].arg)) \notin DOMAIN StepMapOf(i) ) =>
            result[i].value = None

\* C15 amended: a reference whose first segment is none of "request", "steps"
\* and the step ids in context.steps resolves to None; "steps" is a namespace of
\* its own, ${steps.<step id>.output.<field>} resolves into context.steps.
C15_UnknownNamespaceButSteps ==
    \A i \in Invs :
        ( /\ Ran(i, "resolve_reference") /\ IsBracedRef(call[i].arg)
          /\ FirstSegment(call[i].arg) \notin {<<"request">>, <<"steps">>}
          /\ KeyOf(FirstSegment(call[i].arg)) \notin DOMAIN StepMapOf(i) ) =>
            result[i].value = None

\* C15 witness: ${q} resolved to None in a context whose request holds q, and
\* ${s2.output.f} to None in a context that holds step s1 only
C15_Witness ==
    \E i \in Invs :
        /\ Ran(i, "resolve_reference")
        /\ call[i].arg = Ref(<<"q">>)
        /\ "q" \in DOMAIN RequestOf(i) /\ RequestOf(i)["q"] # None
        /\ "s1" \in DOMAIN StepMapOf(i)
        /\ result[i].value = None

\* the last binding of the field among the inputs of a step
LastBinding(inputs, field) ==
    inputs[CHOOSE k \in 1..Len(inputs) :
              /\ inputs[k].field = field
              /\ \A j \in (k + 1)..Len(inputs) : inputs[j].field # field]

\* C16 as stated: an input bound by a reference receives exactly the value the
\* reference resolves to, also when that value is a string holding ${...}
\* tokens; a literal that is not a string is kept as it is.
C16_ReferenceBindingIsVerbatim ==
    \A i \in Invs :
        Ran(i, "resolve_step_inputs") =>
            \A field \in DOMAIN result[i].value :
                LET binding == LastBinding(call[i].arg.inputs, field)
                IN  /\ (binding.reference # None /\ binding.reference # Str(<<>>)) =>
                          result[i].value[field] =
                              resolve_reference(binding.reference.s, context[i])
                    /\ (binding.reference = None /\ binding.value.t # "str") =>
                          result[i].value[field] = binding.value

\* the text with every token replaced by what the pieces say
RECURSIVE Substituted(_, _)
Substituted(pieces, ctx) ==
    IF pieces = <<>> THEN <<>>
    ELSE LET piece == Head(pieces)
             value == resolve_reference(piece.text, ctx)
         IN  (IF piece.kind = "lit" \/ value = None THEN piece.text ELSE StrOf(value))
                 \o Substituted(Tail(pieces), ctx)

\* C17: _resolve_string_vars replaces every ${...} token of a string by the
\* string form of the value it resolves to, leaves a token that resolves to
\* None as it is written, and leaves the text between the tokens unchanged; the
\* inserted text is not scanned again.
C17_StringInterpolation ==
    \A i \in Invs :
        Ran(i, "resolve_string_vars") =>
            result[i].value = Substituted(call[i].arg, context[i])

\* C17 witness: one token resolved to None and kept, another replaced by the
\* string form of the number 0
C17_Witness ==
    \E i \in Invs :
        /\ Ran(i, "resolve_string_vars")
        /\ result[i].value =
              <<"a", " ">> \o Ref(<<"request", ".", "zz">>) \o <<" ", "b", " ", "0">>

\* invocation i evaluated the condition "left op" for some left-hand reference
RanCondition(i, op) ==
    /\ Ran(i, "evaluate_condition")
    /\ \E left \in EvalLefts : call[i].arg = left \o op

\* the left-hand reference of the condition "left op" and the value it denotes
LeftOf(i, op) == SubSeq(call[i].arg, 1, Len(call[i].arg) - Len(op))
LeftValue(i, op) == resolve_reference(LeftOf(i, op), context[i])

\* the string form of a value without surrounding whitespace, then double
\* quotes, then single quotes
Bare(v) == Strip(Strip(Strip(StrOf(v), {" "}), {"\""}), {"'"})

\* the string form of the value holds a phrase or an operator of the grammar
HoldsOperator(v) ==
    \E pat \in { IsEmpty, IsNotEmpty, <<"!", "=">>, <<"=", "=">> } :
        Contains(pat, StrOf(v))

C19_EmptyIsNullOrEmptyContainer ==
    \A i \in Invs :
        RanCondition(i, <<" ">> \o IsEmpty) =>
            result[i].value =
                (LeftValue(i, <<" ">> \o IsEmpty) \in { None, List(<<>>), Dict(EmptyMap) })

-----------------------------------------------------------------------------
(* Properties of execute_flow: conditions and the response (Spec) *)

\* the condition '${s1.output.count} is not empty'
CountNotEmpty == Str(Ref(<<"s1", ".", "output", ".", "count">>) \o <<" ">> \o IsNotEmpty)

\* invocation i has recorded both steps of a flow whose first step s1 succeeded
\* with count = 0 and whose second step has the condition CountNotEmpty
ZeroCountFlowRan(i) ==
    /\ FlowFound(i) /\ pc[i] \in {"loop", "done"}
    /\ Len(StepsOf(i)) = 2 /\ idx[i] > 2
    /\ StepsOf(i)[1].id = "s1"
    /\ StepsOf(i)[2].condition = CountNotEmpty
    /\ step_results[i]["s1"].status = SUCCESS
    /\ Get(step_results[i]["s1"].output, "count") = Num(0)

\* C21 as stated: in a 2-step flow whose step2 has the condition
\* '${step1.output.count} is not empty', when step1 succeeded with output
\* count = 0 the condition is true and step2 is run, not skipped.
C21_ZeroCountRunsStep ==
    \A i \in Invs :
        ZeroCountFlowRan(i) =>
            /\ step_results[i][StepsOf(i)[2].id].status # SKIPPED
            /\ Logged(i, "get_skill", 2)

-----------------------------------------------------------------------------
(* Properties of condition evaluation (SpecEval) *)

\* the rules of the condition grammar in their order
RuleOrder == <<"is_empty", "is_not_empty", "ne", "eq", "not", "bool">>

\* the substituted string matches the rule
RuleMatches(rule, resolved) ==
    CASE rule = "is_empty" -> Contains(IsEmpty, resolved)
      [] rule = "is_not_empty" -> Contains(IsNotEmpty, resolved)
      [] rule = "ne" -> Contains(<<"!", "=">>, resolved)
      [] rule = "eq" -> Contains(<<"=", "=">>, resolved)
      [] rule = "not" -> StartsWith(Strip(resolved, {" "}), NotPrefix)
      [] OTHER -> TRUE

\* the first rule of the order the substituted string matches
FirstRule(resolved) ==
    RuleOrder[CHOOSE k \in 1..Len(RuleOrder) :
                 /\ RuleMatches(RuleOrder[k], resolved)
                 /\ \A j \in 1..(k - 1) : ~RuleMatches(RuleOrder[j], resolved)]

\* what the rule alone makes of the condition, applied to the whole string
RuleValue(rule, condition, ctx) ==
    LET resolved == resolve_string_vars(condition, ctx)
        trimmed == Strip(resolved, {" "})
    IN  CASE rule = "is_empty" ->
               EmptyTest(resolve_reference(
                   Strip(SplitHead(condition, IsEmpty), {" "}), ctx))
          [] rule = "is_not_empty" ->
               NotEmptyTest(resolve_reference(
                   Strip(SplitHead(condition, IsNotEmpty), {" "}), ctx))
          [] rule = "ne" ->
               Unquote(SplitHead(resolved, <<"!", "=">>))
                   # Unquote(SplitTail(resolved, <<"!", "=">>))
          [] rule = "eq" ->
               Unquote(SplitHead(resolved, <<"=", "=">>))
                   = Unquote(SplitTail(resolved, <<"=", "=">>))
          [] rule = "not" ->
               ~eval_frame(SubSeq(trimmed, 3, Len(trimmed)), ctx, 2)
          [] OTHER -> resolved # <<>>

\* 'not ${s1.status} == "success"'
NotStatusSuccess ==
    NotPrefix \o Ref(<<"s1", ".", "status">>)
        \o <<" ", "=", "=", " ", "\"", "success", "\"">>

C23_FailClosed ==
    \A i \in Invs :
        ( /\ Ran(i, "evaluate_condition")
          /\ eval_raises(call[i].arg, context[i], 1) ) =>
            result[i].value = FALSE

\* C24 as stated: for a reference r that resolves to None, the bare condition r
\* is false and the condition r == "v" is false.
C24_MissingReferenceIsFalsy ==
    \A i \in Invs :
        /\ ( /\ Ran(i, "evaluate_condition")
             /\ call[i].arg \in EvalLefts
             /\ resolve_reference(call[i].arg, context[i]) = None ) =>
               result[i].value = FALSE
        /\ ( /\ RanCondition(i, EqOk)
             /\ LeftValue(i, EqOk) = None ) =>
               result[i].value = FALSE

-----------------------------------------------------------------------------
(* Properties of the response of execute_flow (Spec) *)

\* the mappings of the flow invocation i runs
MappingsOf(i) == registry_flows[flow_arg[i]].response

\* the mapping refers to an output field of a step invocation i recorded as skipped
OfSkippedStep(i, mapping) ==
    /\ mapping.reference # None
    /\ IsOutputRef(mapping.reference.s)
    /\ mapping.reference.s[3] \in DOMAIN step_results[i]
    /\ step_results[i][mapping.reference.s[3]].status = SKIPPED

\* the response holds one entry per mapping: the value its reference resolves
\* to in the final context when that is not None, else its default
ResponseByMapping(i) ==
    LET response == result[i].response
    IN  /\ DOMAIN response = { MappingsOf(i)[k].field : k \in 1..Len(MappingsOf(i)) }
        /\ \A k \in 1..Len(MappingsOf(i)) :
              LET mapping == MappingsOf(i)[k]
                  value == IF mapping.reference = None THEN None
                           ELSE resolve_reference(mapping.reference.s, context[i])
              IN  response[mapping.field] =
                      IF value # None THEN value ELSE mapping.default

\* C25 as stated: the response holds one entry per mapping, the resolved value
\* when it is not None (0, "" and [] are kept), else the configured default; a
\* mapping that refers to an output field of a skipped step yields the default,
\* never None.
C25_SkippedStepNeverNull ==
    \A i \in Invs :
        (pc[i] = "done" /\ FlowFound(i)) =>
            /\ ResponseByMapping(i)
            /\ \A k \in 1..Len(MappingsOf(i)) :
                  OfSkippedStep(i, MappingsOf(i)[k]) =>
                      /\ result[i].response[MappingsOf(i)[k].field] = MappingsOf(i)[k].default
                      /\ result[i].response[MappingsOf(i)[k].field] # None

\* C25 amended: the same, where the default of a mapping that configures none
\* is None: a mapping that refers to an output field of a skipped step yields
\* the mapping's default, which is None when the mapping configures no default.
C25_ResponseByMapping ==
    \A i \in Invs :
        (pc[i] = "done" /\ FlowFound(i)) =>
            /\ ResponseByMapping(i)
            /\ \A k \in 1..Len(MappingsOf(i)) :
                  OfSkippedStep(i, MappingsOf(i)[k]) =>
                      result[i].response[MappingsOf(i)[k].field] = MappingsOf(i)[k].default

\* C25 witness: a flow returned whose step s1 put count = 0 in the response and
\* whose step s3 was skipped, its two mappings yielding their defaults
C25_Witness ==
    \E i \in Invs :
        /\ pc[i] = "done" /\ FlowFound(i)
        /\ "s3" \in DOMAIN step_results[i] /\ step_results[i]["s3"].status = SKIPPED
        /\ result[i].response["count"] = Num(0)
        /\ result[i].response["total"] = Word("n/a")
        /\ result[i].response["items"] = None

-----------------------------------------------------------------------------
(* Purity of the resolution functions (SpecEval) *)

-----------------------------------------------------------------------------
(* Properties of concurrent invocations (SpecConc) *)

\* the constructions of an executor of the skill, by invocation and log position
Constructions(skill_id) ==
    UNION { { <<i, p>> : p \in { q \in 1..Len(log[i]) :
                                    /\ log[i][q][1] = "construct"
                                    /\ StepsOf(i)[log[i][q][2]].skill = skill_id } } :
            i \in ConcInvs }

\* C27: whatever the interleaving of the invocations, at most one executor is
\* constructed per skill id; an invocation awaiting a step of the skill uses the
\* executor the cache holds; an entry of the cache is never replaced or removed.
C27_OneExecutorPerSkill ==
    [][/\ \A skill_id \in DOMAIN registry_skills :
              Cardinality(Constructions(skill_id))' <= 1
       /\ \A i \in ConcInvs :
              pc'[i] = "await" =>
                  /\ call'[i].skill.skill_id \in DOMAIN executor_cache'
                  /\ call'[i].manifest = executor_cache'[call'[i].skill.skill_id]
       /\ \A skill_id \in DOMAIN executor_cache :
              /\ skill_id \in DOMAIN executor_cache'
              /\ executor_cache'[skill_id] = executor_cache[skill_id]
      ]_vars

\* C27 witness: both invocations await a step of the skill "rewriter" at once;
\* the first constructed its executor, the second took it from the cache
C27_Witness ==
    /\ pc["i1"] = "await" /\ pc["i2"] = "await"
    /\ call["i1"].skill.skill_id = "rewriter" /\ call["i2"].skill.skill_id = "rewriter"
    /\ Logged("i1", "construct", idx["i1"])
    /\ Logged("i2", "get_executor", idx["i2"])
    /\ ~Logged("i2", "construct", idx["i2"])

\* the value holds the word somewhere: in a string, an element or an entry
RECURSIVE Mentions(_, _)
Mentions(v, w) ==
    CASE v.t = "str" -> \E p \in 1..Len(v.s) : v.s[p] = w
      [] v.t = "list" -> \E p \in 1..Len(v.l) : Mentions(v.l[p], w)
      [] v.t = "dict" -> \E k \in DOMAIN v.m : Mentions(v.m[k], w)
      [] OTHER -> FALSE

\* the context entries of the invocation are those of its own step results
OwnEntries(i) ==
    /\ DOMAIN context[i].m.steps.m = DOMAIN step_results[i]
    /\ \A sid \in DOMAIN step_results[i] :
          context[i].m.steps.m[sid] =
              Dict([output |-> Dict(step_results[i][sid].output),
                    status |-> Word(step_results[i][sid].status)])

\* C28: whatever the interleaving, a step of one invocation leaves the context,
\* the step results and the result of every other invocation as they are; the
\* context of an invocation holds its own request and the entries of its own
\* step results, its response is built from its own context, and an invocation
\* given the empty request holds nowhere the word of another's request.
C28_ContextOwnedByInvocation ==
    /\ [][\A i \in ConcInvs :
             /\ \A j \in ConcInvs \ {i} :
                   Moves(j) =>
                       /\ context'[i] = context[i]
                       /\ step_results'[i] = step_results[i]
                       /\ result'[i] = result[i]
                       /\ call'[i] = call[i]
             /\ context[i] # None => context'[i].m.request = context[i].m.request
         ]_vars
    /\ [](\A i \in ConcInvs :
             /\ context[i] # None =>
                   /\ OwnEntries(i)
                   /\ context[i].m.request = Dict(EmptyMap) =>
                         /\ ~Mentions(context[i], "hotels")
                         /\ pc[i] = "await" => ~Mentions(Dict(call[i].inputs), "hotels")
                         /\ pc[i] = "done" => ~Mentions(Dict(result[i].response), "hotels")
             /\ (pc[i] = "done" /\ FlowFound(i)) =>
                   /\ result[i].response = build_response(FlowOf(i), context[i])
                   /\ result[i].step_results = step_results[i])

\* C28 witness: two invocations of one flow returned, one given the empty
\* request and one given q = "hotels", whose step s1 passed "hotels" through
C28_Witness ==
    /\ pc["i1"] = "done" /\ pc["i2"] = "done"
    /\ FlowFound("i1") /\ FlowFound("i2")
    /\ context["i1"].m.request = Dict(EmptyMap)
    /\ "s1" \in DOMAIN step_results["i1"] /\ "s1" \in DOMAIN step_results["i2"]
    /\ Mentions(context["i2"].m.steps, "hotels")
    /\ ~Mentions(context["i1"], "hotels")

-----------------------------------------------------------------------------
(* Properties of the context of one invocation (Spec) *)

\* C29: during one invocation of a flow with unique step ids, the entry of a
\* step id is written at most once and then neither modified nor removed, a
\* step of the invocation writes at most the entry of the step it is at, and
\* the request entry is never rewritten.
C29_WriteOnce ==
    [][\A i \in Invs :
          context[i] # None =>
              /\ context'[i] # None
              /\ context'[i].m.request = context[i].m.request
              /\ \A sid \in DOMAIN context[i].m.steps.m :
                    /\ sid \in DOMAIN context'[i].m.steps.m
                    /\ context'[i].m.steps.m[sid] = context[i].m.steps.m[sid]
              /\ \A sid \in DOMAIN context'[i].m.steps.m \ DOMAIN context[i].m.steps.m :
                    \/ AtStep(i) /\ sid = StepOf(i).id
                    \/ pc[i] = "await" /\ sid = call[i].step.id
      ]_vars

\* C29 witness: a flow returned with the entries of its two steps in the
\* context, the first of them as it was written
C29_Witness ==
    \E i \in Invs :
        /\ pc[i] = "done" /\ FlowFound(i) /\ Len(StepsOf(i)) = 2
        /\ DOMAIN context[i].m.steps.m = { StepsOf(i)[1].id, StepsOf(i)[2].id }
        /\ context[i].m.steps.m[StepsOf(i)[1].id].m.status = Word("failure")
        /\ context[i].m.request = Dict([q |-> Word("hotels")])

-----------------------------------------------------------------------------
(* Properties of the registry (SpecRegistry) *)

\* the last operation of invocation i on the registry
LastOp(i) == log[i][Len(log[i])]

\* the positions of the log of i where the id was registered by the operation
Registrations(i, op, id) ==
    { p \in 1..Len(log[i]) : log[i][p].op = op /\ log[i][p].id = id }

\* the entry last registered for the id
LastRegistered(i, op, id) ==
    log[i][CHOOSE p \in Registrations(i, op, id) :
              \A q \in Registrations(i, op, id) : q <= p].entry

\* C30 as stated: get_skill(id) returns the manifest last registered for id by
\* register_skill, and get_flow(id) the flow last registered by register_flow,
\* in every state of the registry, also when load() has not run at the time of
\* the registration.
C30_RegistryRoundTrip ==
    \A i \in Invs :
        Len(log[i]) > 0 =>
            /\ (LastOp(i).op = "get_skill"
                    /\ Registrations(i, "register_skill", LastOp(i).id) # {}) =>
                  result[i] = Returned(LastRegistered(i, "register_skill", LastOp(i).id))
            /\ (LastOp(i).op = "get_flow"
                    /\ Registrations(i, "register_flow", LastOp(i).id) # {}) =>
                  result[i] = Returned(LastRegistered(i, "register_flow", LastOp(i).id))

\* the ids of the well-formed sources of a list of sources
WellFormedIds(sources, key) ==
    { sources[p].entry[key] : p \in { q \in 1..Len(sources) : sources[q].kind = "valid" } }

\* C31 as stated: for every combination of well-formed and malformed sources
\* on disk (manifests, flow files, the master registry config), load() and the
\* lazy load of get_skill/get_flow return without raising, and once a load has
\* run every well-formed skill and flow of the disk is registered.
C31_LoadNeverRaises ==
    \A i \in Invs :
        (Len(log[i]) > 0 /\ LastOp(i).op \in { "load", "get_skill", "get_flow" }) =>
            /\ result[i].status = "returned"
            /\ registry_loaded
            /\ WellFormedIds(disk.skills, "skill_id") \subseteq DOMAIN registry_skills
            /\ WellFormedIds(disk.flows, "flow_id") \subseteq DOMAIN registry_flows

-----------------------------------------------------------------------------
(* Properties of the resolution and condition functions, continued (SpecEval) *)

\* the segments of a reference
PathParts(reference) ==
    SplitDots(IF StartsWith(reference, <<"$", "{">>) /\ EndsWith(reference, <<"}">>)
              THEN SubSeq(reference, 3, Len(reference) - 1)
              ELSE reference)

\* the value traversal starts from and the segments it follows: the context for
\* a top-level key, the entry of the step for the step shorthand
Traversal(reference, ctx) ==
    LET parts == PathParts(reference)
    IN  IF KeyOf(parts[1]) \in DOMAIN ctx.m
        THEN [from |-> ctx, parts |-> parts, known |-> TRUE]
        ELSE IF KeyOf(parts[1]) \in DOMAIN ctx.m.steps.m
        THEN [from |-> ctx.m.steps.m[KeyOf(parts[1])], parts |-> Tail(parts), known |-> TRUE]
        ELSE [from |-> None, parts |-> <<>>, known |-> FALSE]

\* traversal cannot continue at some segment: the value reached by the segments
\* before it is not a map, or the segment is not a key of it
StopsAtSegment(tr) ==
    \E k \in 1..Len(tr.parts) :
        LET reached == Walk(tr.from, SubSeq(tr.parts, 1, k - 1))
        IN  reached.t # "dict" \/ KeyOf(tr.parts[k]) \notin DOMAIN reached.m

\* C32: _resolve_reference returns for every reference and context (it never
\* raises); it returns null when the first segment names neither a top-level
\* key nor a step, and when at some segment the value reached is not a map (a
\* scalar, a sequence, null) or the segment is not a key of it.
C32_ResolutionTotal ==
    \A i \in Invs :
        (pc[i] = "e_done" /\ call[i].fn = "resolve_reference") =>
            LET tr == Traversal(call[i].arg, context[i])
            IN  /\ result[i].status = "evaluated"
                /\ (~tr.known \/ StopsAtSegment(tr)) => result[i].value = None

\* C32 witness: ${request.q.deep} was resolved against a request whose q is a
\* string, and null came back
C32_Witness ==
    \E i \in Invs :
        /\ pc[i] = "e_done" /\ call[i].fn = "resolve_reference"
        /\ call[i].arg = Ref(<<"request", ".", "q", ".", "deep">>)
        /\ context[i].m.request = Dict([q |-> Word("hotels")])
        /\ result[i] = Evaluated(None)

\* C33 as stated: 'not ${s1.status} == "success"' evaluates to true exactly when
\* the recorded status of s1 is not "success", and to false when it is.
C33_NotStatusSuccess ==
    \A i \in Invs :
        (/\ pc[i] = "e_done" /\ call[i].fn = "evaluate_condition"
         /\ call[i].arg = NotStatusSuccess
         /\ "s1" \in DOMAIN context[i].m.steps.m) =>
            result[i].value = (context[i].m.steps.m["s1"].m.status # Word("success"))

-----------------------------------------------------------------------------
(* Properties of execute_flow, continued (Spec) *)

\* the ids of the first k steps of the flow of invocation i
FirstIds(i, k) == { StepsOf(i)[p].id : p \in 1..k }

\* the step ids of the flow are unique
UniqueStepIds(i) ==
    \A p, q \in 1..Len(StepsOf(i)) : StepsOf(i)[p].id = StepsOf(i)[q].id => p = q

\* C34: in the step loop of a flow with unique step ids, after the first k
\* steps context.steps and step_results both have exactly the ids of those k
\* steps as keys, and for each id the status string and the output of the
\* context entry are those of the recorded Skill Result; the FlowResult returned
\* has exactly one Skill Result per declared step.
C34_LoopInvariant ==
    \A i \in Invs :
        (FlowFound(i) /\ UniqueStepIds(i)) =>
            /\ pc[i] \in { "loop", "await", "done" } =>
                  /\ DOMAIN step_results[i] = FirstIds(i, idx[i] - 1)
                  /\ DOMAIN context[i].m.steps.m = FirstIds(i, idx[i] - 1)
                  /\ \A sid \in DOMAIN step_results[i] :
                        /\ step_results[i][sid].step_id = sid
                        /\ context[i].m.steps.m[sid] =
                              Dict([output |-> Dict(step_results[i][sid].output),
                                    status |-> Word(step_results[i][sid].status)])
            /\ pc[i] = "done" =>
                  /\ DOMAIN result[i].step_results = FirstIds(i, Len(StepsOf(i)))
                  /\ result[i].step_results = step_results[i]

\* C34 witness: a flow of two steps returned, the first skipped and the second
\* run, each with its Skill Result and its context entry
C34_Witness ==
    \E i \in Invs :
        /\ pc[i] = "done" /\ FlowFound(i) /\ UniqueStepIds(i) /\ Len(StepsOf(i)) = 2
        /\ step_results[i][StepsOf(i)[1].id].status = SKIPPED
        /\ step_results[i][StepsOf(i)[2].id].status = SUCCESS
        /\ DOMAIN context[i].m.steps.m = FirstIds(i, 2)

\* the internal keys of the phase-one marker of the passthrough fallback
MarkerKeys == { "_fallback", "_field" }

\* C35 as stated: after execute_flow returns, no recorded Skill Result and no
\* context.steps entry has an output with the marker keys _fallback / _field,
\* also when the passthrough field is not among the resolved inputs of the step
\* or is itself the missing required input.
C35_MarkerNeverLeft ==
    \A i \in Invs :
        (pc[i] = "done" /\ FlowFound(i)) =>
            /\ \A sid \in DOMAIN result[i].step_results :
                  DOMAIN result[i].step_results[sid].output \cap MarkerKeys = {}
            /\ \A sid \in DOMAIN context[i].m.steps.m :
                  DOMAIN context[i].m.steps.m[sid].m.output.m \cap MarkerKeys = {}

-----------------------------------------------------------------------------
(* Properties of execute_flow with register_skill interleaved (SpecRereg) *)

\* invocation i is at a step that runs: its condition is met and its skill is
\* registered with a type that has an executor
StepRuns(i) ==
    /\ AtStep(i)
    /\ ~condition_fails(StepOf(i), context[i])
    /\ get_skill(StepOf(i).skill) # None
    /\ get_skill(StepOf(i).skill).type \in EXECUTOR_MAP

\* C36 as stated: for any interleaving of register_skill and execute_flow, the
\* capability instance that runs a step was constructed from the manifest the
\* registry returns for the step's skill id when the step runs, so that
\* validation, mock permission and fallback use the manifest the engine uses
\* for the passthrough output field.
C36_ExecutorOfCurrentManifest ==
    /\ StepRuns("i1") =>
          LET skill == get_skill(StepOf("i1").skill)
          IN  get_executor(skill)[skill.skill_id] = skill
    /\ pc["i1"] = "await" => call["i1"].manifest = call["i1"].skill

-----------------------------------------------------------------------------
(* Properties of execute_flow, resolved inputs (Spec) *)

\* the fields the input bindings of a step name
BoundFields(step) == { step.inputs[p].field : p \in 1..Len(step.inputs) }

\* the names of the required fields of an input schema
RequiredFields(input_schema) ==
    { input_schema[k].name : k \in { q \in 1..Len(input_schema) : input_schema[q].required } }

\* the bindings of a step by a reference that does not resolve in the context
UnresolvedBindings(step, ctx) ==
    { p \in 1..Len(step.inputs) :
        /\ Truthy(step.inputs[p].reference)
        /\ resolve_reference(step.inputs[p].reference.s, ctx) = None
        /\ \A q \in 1..Len(step.inputs) : step.inputs[q].field = step.inputs[p].field => q = p }

\* C37: the resolved inputs handed to a capability have exactly one key per
\* field the step's bindings name, with null for a reference that does not
\* resolve; validation fails exactly when a required field has no binding on
\* the step, and a step whose required field is bound to a reference resolving
\* to null passes validation and its implementation is invoked with null.
C37_ResolvedInputsKeys ==
    [][ \A i \in Invs :
          (StepRuns(i) /\ Moves(i)) =>
              LET step == StepOf(i)
                  skill == get_skill(step.skill)
              IN  /\ pc'[i] = "await" <=>
                        RequiredFields(skill.input_schema) \subseteq BoundFields(step)
                  /\ pc'[i] = "await" =>
                        /\ call'[i].impl \in ImplEvents
                        /\ DOMAIN call'[i].inputs = BoundFields(step)
                        /\ \A p \in UnresolvedBindings(step, context[i]) :
                              call'[i].inputs[step.inputs[p].field] = None
      ]_vars

\* C37 witness: the implementation of a skill whose required field "query" is
\* bound to ${request.q} was invoked for a request without q, with query null
C37_Witness ==
    \E i \in Invs :
        /\ pc[i] = "await" /\ call[i].impl \in ImplEvents
        /\ context[i].m.request = Dict(EmptyMap)
        /\ "query" \in RequiredFields(call[i].manifest.input_schema)
        /\ DOMAIN call[i].inputs = { "query" }
        /\ call[i].inputs["query"] = None

-----------------------------------------------------------------------------
(* Properties of the condition grammar under a change of the data (SpecEval) *)

\* the first ${...} token of a condition
TokenOf(condition) ==
    LET p == CHOOSE p \in 1..Len(condition) :
                 /\ VarMatchLen(SubSeq(condition, p, Len(condition))) > 0
                 /\ \A q \in 1..(p - 1) : VarMatchLen(SubSeq(condition, q, Len(condition))) = 0
    IN  SubSeq(condition, p, p + VarMatchLen(SubSeq(condition, p, Len(condition))) - 1)

HasToken(condition) ==
    \E p \in 1..Len(condition) : VarMatchLen(SubSeq(condition, p, Len(condition))) > 0

\* the keys from the context down to the field a reference names
KeysTo(reference, ctx) ==
    IF KeyOf(PathParts(reference)[1]) \in DOMAIN ctx.m
    THEN PathParts(reference)
    ELSE <<"steps">> \o PathParts(reference)

\* the field a reference names is in the context
FieldPresent(reference, ctx) ==
    LET tr == Traversal(reference, ctx) IN tr.known /\ ~StopsAtSegment(tr)

\* the value with the field at the end of the keys set to v, all else as it is
RECURSIVE WithField(_, _, _)
WithField(current, keys, v) ==
    IF keys = <<>> THEN v
    ELSE Dict([current.m EXCEPT ![KeyOf(Head(keys))] = WithField(@, Tail(keys), v)])

\* C38 as stated: the rule that evaluates a condition is determined by the text
\* of the condition alone; a context that differs only in the value of the
\* field the condition references selects the same rule, whatever the value
\* contains ("is empty", "==", "!=", a leading "not ").
C38_RuleByTextAlone ==
    \A i \in Invs :
        (/\ pc[i] = "e_done" /\ call[i].fn = "evaluate_condition"
         /\ HasToken(call[i].arg)
         /\ FieldPresent(TokenOf(call[i].arg), context[i])) =>
            \A v \in EvalValues :
                LET other == WithField(context[i],
                                       KeysTo(TokenOf(call[i].arg), context[i]), v)
                IN  ConditionRule(resolve_string_vars(call[i].arg, other)) = call[i].rule

====
